---------------------------- MODULE Spec2Model ----------------------------
(***************************************************************************)
(* A model of the Astra vehicle-exploration front end:                     *)
(*   - the chat orchestrator EnhancedChatInterface (handleSend, handleRetry,*)
(*     the typing-effect hook, the voice listener),                        *)
(*   - the knowledge service: the four accessors,                          *)
(*     determineVisualizationType and generateVisualizationData,           *)
(*   - ReviewAnalysis (handleGenerateReview), CarImageService              *)
(*     (getCarImageUrl), CarListing (the fetchCars effect) and the chat    *)
(*     overlay of CarDetail.                                               *)
(* Each part has its own specification; a part that a specification does  *)
(* not exercise keeps its variables at their idle values.                  *)
(***************************************************************************)
EXTENDS Integers, Sequences, FiniteSets, TLC

VARIABLES
    \* ---- EnhancedChatInterface: React state
    messages,           \* useState: the session list
    input,              \* useState: the text field
    loading,            \* useState: the pending flag
    showSuggestions,    \* useState
    carData,            \* useState: <<>> (null) or <<car>>
    typingEffect,       \* useState
    currentTypingText,  \* useState
    fullResponseText,   \* useState
    errorState,         \* useState: [hasError, retryCount]
    \* ---- EnhancedChatInterface: asynchronous work in flight
    inflight,           \* handleSend invocations suspended at await fetch(...)
    timers,             \* pending setTimeout(..., 1000) callbacks of handleSend
    \* ---- history of the run (not program state)
    nSubmits,           \* user messages appended so far
    failsSinceSuccess,  \* failed completions since the last successful one
    tier3Fails,         \* failed completions whose newRetryCount was >= 3
    tier3CarFails,      \* those of them whose closure held the car
    blankSubmits,       \* handleSend calls that returned at the blank check
    lastSubmitted       \* the text of the latest handleSend call that passed it

chatVars == <<messages, input, loading, showSuggestions, carData, typingEffect,
              currentTypingText, fullResponseText, errorState, inflight, timers,
              nSubmits, failsSinceSuccess, tier3Fails, tier3CarFails,
              blankSubmits, lastSubmitted>>

\* ---- knowledge service (specifications SpecClassify, SpecSentiment, SpecTrend)
VARIABLES
    query,              \* the argument of determineVisualizationType
    queryParts,         \* phrases it was built from
    vizType,            \* its result, "unset" before the call
    reviewRows,         \* the review_analysis rows of the car in the store
    sentimentOut,       \* what getReviewSentiment returned
    sentimentDone,      \* whether it has returned
    timeline,           \* what getCarTimeline returned, ascending by year
    trendOut,           \* timeSeriesData of generateVisualizationData('trend')
    trendDone           \* whether it has returned

vizVars == <<query, queryParts, vizType>>
sentVars == <<reviewRows, sentimentOut, sentimentDone>>
trendVars == <<timeline, trendOut, trendDone>>

\* ---- knowledge service (specifications SpecAccessors, SpecShaping)
VARIABLES
    accFn,              \* the accessor about to be called, "none" before
    accQuery,           \* what its store query answers
    accResult,          \* how the accessor completed
    shapeType,          \* the type generateVisualizationData is called with
    relQuery,           \* what the car_relationships query answers
    featQuery,          \* what the car_features query answers
    sentQuery,          \* what the review_analysis query answers
    shapeOut            \* how generateVisualizationData completed

accVars == <<accFn, accQuery, accResult>>
shapeVars == <<shapeType, relQuery, featQuery, sentQuery, shapeOut>>

\* ---- the cards and the suggestions of a reply (SpecCards, SpecSuggestions)
VARIABLES
    cardData,           \* the /api/chat response body handleSend received
    cardLength,         \* messages.length in the closure of that handleSend
    cardComponents,     \* aiResponse.components, <<"unset">> before
    sugContext,         \* the argument of generateSuggestions
    sugOut              \* its result, <<>> before the call

cardVars == <<cardData, cardLength, cardComponents>>
sugVars == <<sugContext, sugOut>>

\* ---- ReviewAnalysis (SpecReview)
VARIABLES
    review,             \* the component's useState values
    reviewCall,         \* the handleGenerateReview invocation in flight
    nGenerations        \* history: handleGenerateReview calls that passed the guard

reviewVars == <<review, reviewCall, nGenerations>>

\* ---- CarImageService (SpecImage)
VARIABLES
    imageCar,           \* the argument of getCarImageUrl
    imageProbe,         \* how fetch(cpUrl, HEAD) settles
    imageResult         \* how the promise of getCarImageUrl settled

imageVars == <<imageCar, imageProbe, imageResult>>

\* ---- CarListing (SpecListing)
VARIABLES
    listing,            \* the component's useState values
    listRequests,       \* fetchCars invocations suspended at await fetch(url)
    nRequests,          \* history: fetchCars invocations so far
    shownFor            \* history: the invocation whose setCars was the last

listVars == <<listing, listRequests, nRequests, shownFor>>

\* ---- CarDetail (SpecDetail)
VARIABLES
    chatState,          \* useState: "closed", "opening", "open" or "closing"
    showAnalysis,       \* useState
    chatTimers          \* pending setTimeout callbacks, with the time left

detailVars == <<chatState, showAnalysis, chatTimers>>

vars == <<chatVars, vizVars, sentVars, trendVars, accVars, shapeVars,
          cardVars, sugVars, reviewVars, imageVars, listVars, detailVars>>

-----------------------------------------------------------------------------
(* Bounds *)

\* user messages appended in one run
MaxSubmits == 3
\* how many of a message's suggestion buttons the user may click (the first ones)
MaxSuggestionPick == 1
\* handleSend calls with a blank text that the history counts
MaxBlankSubmits == 1

-----------------------------------------------------------------------------
(* Strings *)

Min(a, b) == IF a < b THEN a ELSE b
Max(a, b) == IF a < b THEN b ELSE a

WhiteSpace == {" ", "\t"}

RECURSIVE TrimStart(_)
TrimStart(s) ==
    IF Len(s) > 0 /\ SubSeq(s, 1, 1) \in WhiteSpace
    THEN TrimStart(SubSeq(s, 2, Len(s))) ELSE s

RECURSIVE TrimEnd(_)
TrimEnd(s) ==
    IF Len(s) > 0 /\ SubSeq(s, Len(s), Len(s)) \in WhiteSpace
    THEN TrimEnd(SubSeq(s, 1, Len(s) - 1)) ELSE s

\* String.prototype.trim
Trim(s) == TrimEnd(TrimStart(s))

\* String.prototype.substring(0, n)
Substring0(s, n) == SubSeq(s, 1, Min(Max(n, 0), Len(s)))

Digit(d) ==
    CASE d = 0 -> "0" [] d = 1 -> "1" [] d = 2 -> "2" [] d = 3 -> "3"
      [] d = 4 -> "4" [] d = 5 -> "5" [] d = 6 -> "6" [] d = 7 -> "7"
      [] d = 8 -> "8" [] d = 9 -> "9"

\* Number.prototype.toString of a non-negative integer
RECURSIVE NatToString(_)
NatToString(n) ==
    IF n < 10 THEN Digit(n) ELSE NatToString(n \div 10) \o Digit(n % 10)

-----------------------------------------------------------------------------
(* EnhancedChatInterface: data *)

\* the car of the session, as /api/cars/{carId} returns it
TheCar == [year |-> 2022, manufacturer |-> "Honda", model |-> "Civic"]

\* the name without the year
CarName_WithoutYear(car) == car.manufacturer \o " " \o car.model

\* `${carData.year} ${carData.manufacturer} ${carData.model}`
CarName(car) ==
    NatToString(car.year) \o " " \o car.manufacturer \o " " \o car.model

GreetingSuggestions ==
    << "What's the fuel economy like?",
       "Tell me about the engine specs",
       "How does it compare to competitors?",
       "What are the safety features?",
       "Is this car reliable?" >>

FallbackSuggestions ==
    << "Tell me about this car model",
       "What's this car known for?",
       "Common issues with this model",
       "What should I look for when buying?" >>

\* a message of the session list; absent optional fields are FALSE / <<>>
Msg(text, sender) ==
    [text |-> text, sender |-> sender, error |-> FALSE, showRetry |-> FALSE,
     carName |-> <<>>, suggestions |-> <<>>, components |-> <<>>]

Greeting ==
    [Msg("Hello! I'm your AI automotive expert. How can I help you explore this vehicle?", "ai")
        EXCEPT !.suggestions = GreetingSuggestions]

ErrTier1 == "I'm having trouble accessing information about this vehicle. Let me try again..."
ErrTier2 == "I apologize for the difficulty. My connection to the vehicle database seems unstable right now."
ErrTier3 == "I'm very sorry, but I'm unable to connect to our automotive database at the moment. I can still chat about general car topics or answer basic questions about this model based on what I already know."

\* the error text chosen from newRetryCount
ErrorText(newRetryCount) ==
    IF newRetryCount = 1 THEN ErrTier1
    ELSE IF newRetryCount = 2 THEN ErrTier2
    ELSE ErrTier3

ShowRetry(newRetryCount) == newRetryCount < 3

ErrorMsg(newRetryCount, car) ==
    [Msg(ErrorText(newRetryCount), "ai") EXCEPT
        !.error = TRUE,
        !.showRetry = ShowRetry(newRetryCount),
        !.carName = IF car # <<>> THEN <<CarName(car[1])>> ELSE <<>>]

SupplementaryMsg(car) ==
    [Msg("I can still tell you general information about the " \o CarName(car[1])
         \o " based on my automotive knowledge. What would you like to know?", "ai")
        EXCEPT !.suggestions = FallbackSuggestions]

\* the supplementary message only from the fourth failure on
SchedulesSupplementary_AfterThird(newRetryCount, car) ==
    newRetryCount > 3 /\ car # <<>>

\* whether a failed call schedules the supplementary message
SchedulesSupplementary(newRetryCount, car) == newRetryCount >= 3 /\ car # <<>>


\* generateSuggestions with the basic templates only below two turns
generateSuggestions_BelowTwo(car, intent, conversationLength) ==
    IF car = <<>> THEN
        << "What cars do you recommend?",
           "Tell me about SUVs",
           "What are the most fuel-efficient cars?",
           "What should I look for when buying a used car?",
           "What are the safest family vehicles?" >>
    ELSE LET carName == CarName(car[1]) IN
    IF conversationLength < 2 THEN
        << "What's the fuel economy like for the " \o carName \o "?",
           "Tell me about the engine in the " \o carName,
           "How comfortable is the " \o carName \o "?",
           "What are the safety features in the " \o carName \o "?",
           "Is the " \o carName \o " reliable?" >>
    ELSE CASE intent = "fuel_economy" ->
        << "How does the " \o carName \o "'s fuel economy compare to competitors?",
           "What's the driving range of the " \o carName \o "?",
           "Does the " \o carName \o " require premium fuel?",
           "Are there any fuel-saving features in the " \o carName \o "?" >>
      [] intent = "performance" ->
        << "What's the horsepower of the " \o carName \o "?",
           "How does the " \o carName \o " handle in different conditions?",
           "What's the 0-60 time for the " \o carName \o "?",
           "How is the braking performance of the " \o carName \o "?" >>
      [] intent = "reliability" ->
        << "What are common issues with the " \o carName \o "?",
           "How long do " \o car[1].manufacturer \o " vehicles typically last?",
           "What's the warranty coverage for the " \o carName \o "?",
           "Is the " \o carName \o " expensive to maintain?" >>
      [] intent = "safety" ->
        << "What safety ratings does the " \o carName \o " have?",
           "Does the " \o carName \o " have advanced driver assistance?",
           "How many airbags does the " \o carName \o " have?",
           "Is the " \o carName \o " a good family vehicle?" >>
      [] OTHER ->
        << "How does the " \o carName \o " compare to similar vehicles?",
           "What are owners saying about the " \o carName \o "?",
           "What are the pros and cons of the " \o carName \o "?",
           "Would you recommend the " \o carName \o "?" >>

\* generateSuggestions({carData, intent, conversationLength})
generateSuggestions(car, intent, conversationLength) ==
    IF car = <<>> THEN
        << "What cars do you recommend?",
           "Tell me about SUVs",
           "What are the most fuel-efficient cars?",
           "What should I look for when buying a used car?",
           "What are the safest family vehicles?" >>
    ELSE LET carName == CarName(car[1]) IN
    IF conversationLength <= 2 THEN
        << "What's the fuel economy like for the " \o carName \o "?",
           "Tell me about the engine in the " \o carName,
           "How comfortable is the " \o carName \o "?",
           "What are the safety features in the " \o carName \o "?",
           "Is the " \o carName \o " reliable?" >>
    ELSE CASE intent = "fuel_economy" ->
        << "How does the " \o carName \o "'s fuel economy compare to competitors?",
           "What's the driving range of the " \o carName \o "?",
           "Does the " \o carName \o " require premium fuel?",
           "Are there any fuel-saving features in the " \o carName \o "?" >>
      [] intent = "performance" ->
        << "What's the horsepower of the " \o carName \o "?",
           "How does the " \o carName \o " handle in different conditions?",
           "What's the 0-60 time for the " \o carName \o "?",
           "How is the braking performance of the " \o carName \o "?" >>
      [] intent = "reliability" ->
        << "What are common issues with the " \o carName \o "?",
           "How long do " \o car[1].manufacturer \o " vehicles typically last?",
           "What's the warranty coverage for the " \o carName \o "?",
           "Is the " \o carName \o " expensive to maintain?" >>
      [] intent = "safety" ->
        << "What safety ratings does the " \o carName \o " have?",
           "Does the " \o carName \o " have advanced driver assistance?",
           "How many airbags does the " \o carName \o " have?",
           "Is the " \o carName \o " a good family vehicle?" >>
      [] OTHER ->
        << "How does the " \o carName \o " compare to similar vehicles?",
           "What are owners saying about the " \o carName \o "?",
           "What are the pros and cons of the " \o carName \o "?",
           "Would you recommend the " \o carName \o "?" >>

(* A /api/chat response body.  An absent (undefined) field is -1 for the      *)
(* numeric fields, <<>> for car_data and "" for intent.primaryIntent;         *)
(* category_scores, common_pros and common_cons hold the number of entries,   *)
(* sentiment is 1 when the object is there, average_rating is the number.     *)
NoAnalysis ==
    [category_scores |-> -1, common_pros |-> -1, common_cons |-> -1,
     sentiment |-> -1, average_rating |-> -1]

Responses ==
    { [response |-> "", car_data |-> <<>>, hasAnalysis |-> FALSE,
       analysis |-> NoAnalysis, intent |-> ""],
      [response |-> "Okay", car_data |-> <<TheCar>>, hasAnalysis |-> TRUE,
       analysis |-> [category_scores |-> 2, common_pros |-> 1, common_cons |-> 0,
                     sentiment |-> 1, average_rating |-> 4],
       intent |-> "safety"] }

\* the cards handleSend pushes on aiResponse.components, by type
Components(data, messagesLength) ==
    IF data.hasAnalysis THEN
        (IF data.car_data # <<>> /\ messagesLength <= 2
            THEN <<"specification">> ELSE <<>>)
        \o (IF data.analysis.category_scores > 0
            THEN <<"category_scores">> ELSE <<>>)
        \o (IF data.analysis.common_pros > 0 \/ data.analysis.common_cons > 0
            THEN <<"pros_cons">> ELSE <<>>)
        \o (IF data.analysis.sentiment >= 0
            THEN <<"sentiment">> ELSE <<>>)
        \o (IF data.analysis.average_rating > 0
            THEN <<"rating">> ELSE <<>>)
    ELSE IF data.car_data # <<>> /\ messagesLength <= 2
        THEN <<"specification">> ELSE <<>>

\* messages.filter(m => m.sender === 'user').map(m => m.text)
RECURSIVE UserTexts(_)
UserTexts(msgs) ==
    IF msgs = <<>> THEN <<>>
    ELSE IF Head(msgs).sender = "user"
         THEN <<Head(msgs).text>> \o UserTexts(Tail(msgs))
         ELSE UserTexts(Tail(msgs))

(* What a handleSend invocation reads from the render that created it: the    *)
(* state variables are constants of that render's closure.                    *)
Closure(msgs, err, car) ==
    [retryCount |-> err.retryCount,
     history |-> UserTexts(msgs),
     messagesLength |-> Len(msgs),
     car |-> car]

InitialMessages == <<Greeting>>
InitialErrorState == [hasError |-> FALSE, retryCount |-> 0]

\* the closure of the render a UI event handler belongs to: the current one
CurrentClosure == Closure(messages, errorState, carData)

\* the voice listener is registered once (effect with [] dependencies) and
\* keeps the handleSend of the first render
FirstRenderClosure == Closure(InitialMessages, InitialErrorState, <<>>)

-----------------------------------------------------------------------------
(* EnhancedChatInterface: operations *)

TypedTexts == {"hi", "  "}
VoiceTexts == {"go", "  "}

ChatInit ==
    /\ messages = InitialMessages
    /\ input = ""
    /\ loading = FALSE
    /\ showSuggestions = TRUE
    /\ carData = <<>>
    /\ typingEffect = FALSE
    /\ currentTypingText = ""
    /\ fullResponseText = ""
    /\ errorState = InitialErrorState
    /\ inflight = {}
    /\ timers = 0
    /\ nSubmits = 0
    /\ failsSinceSuccess = 0
    /\ tier3Fails = 0
    /\ tier3CarFails = 0
    /\ blankSubmits = 0
    /\ lastSubmitted = ""

(* handleSend(messageText) up to its await: the blank check, the user message,*)
(* the pending flag and the request, whose conversation_history is computed   *)
(* from the closure's messages.  noopInput is what input holds if it returns  *)
(* early.                                                                     *)
\* handleSend without its blank check
HandleSend_NoBlankCheck(messageText, clo, noopInput) ==
    /\ nSubmits < MaxSubmits
    /\ messages' = Append(messages, Msg(messageText, "user"))
    /\ input' = ""
    /\ loading' = TRUE
    /\ showSuggestions' = FALSE
    /\ inflight' = inflight \cup
           {[id |-> nSubmits + 1, message |-> messageText, clo |-> clo]}
    /\ nSubmits' = nSubmits + 1
    /\ IF Trim(messageText) = ""
       THEN /\ blankSubmits < MaxBlankSubmits
            /\ blankSubmits' = blankSubmits + 1
            /\ UNCHANGED lastSubmitted
       ELSE /\ lastSubmitted' = messageText
            /\ UNCHANGED blankSubmits

HandleSend(messageText, clo, noopInput) ==
    IF Trim(messageText) = ""
    THEN /\ blankSubmits < MaxBlankSubmits
         /\ blankSubmits' = blankSubmits + 1
         /\ input' = noopInput
         /\ UNCHANGED <<messages, loading, showSuggestions, inflight, nSubmits,
                        lastSubmitted>>
    ELSE /\ nSubmits < MaxSubmits
         /\ messages' = Append(messages, Msg(messageText, "user"))
         /\ input' = ""
         /\ loading' = TRUE
         /\ showSuggestions' = FALSE
         /\ inflight' = inflight \cup
                {[id |-> nSubmits + 1, message |-> messageText, clo |-> clo]}
         /\ nSubmits' = nSubmits + 1
         /\ lastSubmitted' = messageText
         /\ UNCHANGED blankSubmits

SubmitFrame ==
    UNCHANGED <<carData, typingEffect, currentTypingText, fullResponseText,
                errorState, timers, failsSinceSuccess, tier3Fails, tier3CarFails>>

\* the fetch of /api/cars/{carId} on mount answers
LoadCarData ==
    /\ carData = <<>>
    /\ carData' = <<TheCar>>
    /\ UNCHANGED <<messages, input, loading, showSuggestions, typingEffect,
                   currentTypingText, fullResponseText, errorState, inflight,
                   timers, nSubmits, failsSinceSuccess, tier3Fails, tier3CarFails,
                   blankSubmits, lastSubmitted>>

\* input onChange
SetInput ==
    \E t \in TypedTexts :
        /\ input # t
        /\ input' = t
        /\ UNCHANGED <<messages, loading, showSuggestions, carData, typingEffect,
                       currentTypingText, fullResponseText, errorState, inflight,
                       timers, nSubmits, failsSinceSuccess, tier3Fails,
                       tier3CarFails, blankSubmits, lastSubmitted>>

\* input onKeyPress: Enter calls handleSend(), whatever loading is
PressEnter ==
    /\ HandleSend(input, CurrentClosure, input)
    /\ SubmitFrame

\* the send button, disabled={loading || !input.trim()}
ClickSend ==
    /\ ~loading
    /\ Trim(input) # ""
    /\ HandleSend(input, CurrentClosure, input)
    /\ SubmitFrame

\* the body of message idx is rendered (its buttons too) unless it is the last
\* message while the typing effect runs
BodyShown(idx) == ~(idx = Len(messages) /\ typingEffect)

\* handleSuggestionClick(suggestion)
ClickSuggestion ==
    \E idx \in 1..Len(messages) :
      \E k \in 1..Min(MaxSuggestionPick, Len(messages[idx].suggestions)) :
        /\ BodyShown(idx)
        /\ HandleSend(messages[idx].suggestions[k], CurrentClosure, input)
        /\ SubmitFrame

\* [...messages].filter(msg => msg.sender === 'user').pop()
LastUserMessage(msgs) ==
    LET texts == UserTexts(msgs)
    IN  IF texts = <<>> THEN <<>> ELSE <<texts[Len(texts)]>>

\* the retry button of an error message -> handleRetry
ClickRetry ==
    \E idx \in 1..Len(messages) :
        /\ messages[idx].error
        /\ messages[idx].showRetry
        /\ BodyShown(idx)
        /\ LET last == LastUserMessage(messages)
           IN  IF last # <<>>
               THEN HandleSend(last[1], CurrentClosure, input)
               ELSE UNCHANGED <<messages, input, loading, showSuggestions,
                                inflight, nSubmits, blankSubmits, lastSubmitted>>
        /\ SubmitFrame

\* the voiceTranscript listener: setInput(transcript); handleSend(transcript)
VoiceTranscript ==
    \E t \in VoiceTexts :
        /\ HandleSend(t, FirstRenderClosure, t)
        /\ SubmitFrame

\* handleSend after the await, the try block: the response is ok and parses
BackendSuccess ==
    \E r \in inflight : \E data \in Responses :
        LET aiResponse ==
                [Msg("", "ai") EXCEPT
                    !.components = Components(data, r.clo.messagesLength),
                    !.suggestions = generateSuggestions(data.car_data, data.intent,
                                                        Len(r.clo.history))]
        IN  /\ inflight' = inflight \ {r}
            /\ messages' = Append(messages, aiResponse)
            /\ fullResponseText' = data.response
            /\ currentTypingText' = ""
            /\ typingEffect' = TRUE
            /\ errorState' = [hasError |-> FALSE, retryCount |-> 0]
            /\ loading' = FALSE
            /\ failsSinceSuccess' = 0
            /\ UNCHANGED <<input, showSuggestions, carData, timers, nSubmits,
                           tier3Fails, tier3CarFails, blankSubmits, lastSubmitted>>

\* the catch block if a call that later submissions have overtaken were
\* dropped instead of reported
BackendFailure_CancelsStale ==
    \E r \in inflight :
        LET newRetryCount == r.clo.retryCount + 1
            errorMessage == ErrorMsg(newRetryCount, r.clo.car)
        IN  /\ inflight' = inflight \ {r}
            /\ errorState' = [hasError |-> TRUE, retryCount |-> newRetryCount]
            /\ messages' = IF r.id < nSubmits THEN messages
                           ELSE Append(messages, errorMessage)
            /\ timers' = IF SchedulesSupplementary(newRetryCount, r.clo.car)
                         THEN timers + 1 ELSE timers
            /\ loading' = FALSE
            /\ failsSinceSuccess' = failsSinceSuccess + 1
            /\ tier3Fails' = IF newRetryCount >= 3 THEN tier3Fails + 1 ELSE tier3Fails
            /\ tier3CarFails' = IF newRetryCount >= 3 /\ r.clo.car = <<TheCar>>
                                THEN tier3CarFails + 1 ELSE tier3CarFails
            /\ UNCHANGED <<input, showSuggestions, carData, typingEffect,
                           currentTypingText, fullResponseText, nSubmits,
                           blankSubmits, lastSubmitted>>

\* handleSend after the await, the catch block: fetch rejected, the status
\* was not ok, or the body did not parse
BackendFailure ==
    \E r \in inflight :
        LET newRetryCount == r.clo.retryCount + 1
            errorMessage == ErrorMsg(newRetryCount, r.clo.car)
        IN  /\ inflight' = inflight \ {r}
            /\ errorState' = [hasError |-> TRUE, retryCount |-> newRetryCount]
            /\ messages' = Append(messages, errorMessage)
            /\ timers' = IF SchedulesSupplementary(newRetryCount, r.clo.car)
                         THEN timers + 1 ELSE timers
            /\ loading' = FALSE
            /\ failsSinceSuccess' = failsSinceSuccess + 1
            /\ tier3Fails' = IF newRetryCount >= 3 THEN tier3Fails + 1 ELSE tier3Fails
            /\ tier3CarFails' = IF newRetryCount >= 3 /\ r.clo.car = <<TheCar>>
                                THEN tier3CarFails + 1 ELSE tier3CarFails
            /\ UNCHANGED <<input, showSuggestions, carData, typingEffect,
                           currentTypingText, fullResponseText, nSubmits,
                           blankSubmits, lastSubmitted>>

\* the setTimeout(..., 1000) callback of the catch block; every pending one
\* holds the same car
SupplementaryTimer ==
    /\ timers > 0
    /\ timers' = timers - 1
    /\ messages' = Append(messages, SupplementaryMsg(<<TheCar>>))
    /\ UNCHANGED <<input, loading, showSuggestions, carData, typingEffect,
                   currentTypingText, fullResponseText, errorState, inflight,
                   nSubmits, failsSinceSuccess, tier3Fails, tier3CarFails,
                   blankSubmits, lastSubmitted>>

\* the typing effect hook is live: typingEffect && fullResponseText
TypingLive == typingEffect /\ fullResponseText # ""

\* the hook's 10 ms timeout: three more characters
TypingTick ==
    /\ TypingLive
    /\ Len(currentTypingText) < Len(fullResponseText)
    /\ currentTypingText' = Substring0(fullResponseText, Len(currentTypingText) + 3)
    /\ UNCHANGED <<messages, input, loading, showSuggestions, carData, typingEffect,
                   fullResponseText, errorState, inflight, timers, nSubmits,
                   failsSinceSuccess, tier3Fails, tier3CarFails,
                   blankSubmits, lastSubmitted>>

\* the message the hook writes the full text to: newMessages.length - 1
FinalizeIndex(msgs) == Len(msgs)

\* the hook's else branch: the reveal is complete
TypingFinish ==
    /\ TypingLive
    /\ ~(Len(currentTypingText) < Len(fullResponseText))
    /\ typingEffect' = FALSE
    /\ messages' = [messages EXCEPT ![FinalizeIndex(messages)].text = fullResponseText]
    /\ fullResponseText' = ""
    /\ currentTypingText' = ""
    /\ UNCHANGED <<input, loading, showSuggestions, carData, errorState, inflight,
                   timers, nSubmits, failsSinceSuccess, tier3Fails, tier3CarFails,
                   blankSubmits, lastSubmitted>>

\* number of supplementary messages in the list
RECURSIVE NumSupplementary(_)
NumSupplementary(msgs) ==
    IF msgs = <<>> THEN 0
    ELSE (IF Head(msgs).suggestions = FallbackSuggestions THEN 1 ELSE 0)
         + NumSupplementary(Tail(msgs))

-----------------------------------------------------------------------------
(* knowledge service: getReviewSentiment *)

\* largest count of a review_analysis row
MaxCount == 5
\* rows of the car in review_analysis
MaxRows == 1

(* A JavaScript number, as far as this code produces one: a finite rational   *)
(* num/den, NaN or Infinity.                                                  *)
Fin(num, den) == [kind |-> "finite", num |-> num, den |-> den]
NaN == [kind |-> "NaN", num |-> 0, den |-> 1]
Infinity == [kind |-> "Infinity", num |-> 0, den |-> 1]

\* a / b for non-negative integers a and b
JsDivide(a, b) ==
    IF b # 0 THEN Fin(a, b)
    ELSE IF a = 0 THEN NaN ELSE Infinity

\* x * 100
JsTimes100(x) ==
    IF x.kind = "finite" THEN Fin(x.num * 100, x.den) ELSE x

\* Math.round: the nearest integer, a half rounds up; NaN and Infinity stay
MathRound(x) ==
    IF x.kind = "finite"
    THEN Fin((2 * x.num + x.den) \div (2 * x.den), 1)
    ELSE x

\* the percentage without its || 0
OrZero_Missing(x) == x

\* x || 0: 0 and NaN are falsy
OrZero(x) ==
    IF x.kind = "NaN" \/ (x.kind = "finite" /\ x.num = 0) THEN Fin(0, 1) ELSE x

\* Math.round((count / (positive_count + negative_count + neutral_count)) * 100) || 0
Percentage(count, item) ==
    OrZero(MathRound(JsTimes100(
        JsDivide(count, item.positive_count + item.negative_count + item.neutral_count))))

\* the object getReviewSentiment maps a row to
FormatSentiment(item) ==
    [aspect |-> item.aspect,
     positive |-> Percentage(item.positive_count, item),
     negative |-> Percentage(item.negative_count, item),
     neutral |-> Percentage(item.neutral_count, item)]

SentInit ==
    /\ reviewRows = <<>>
    /\ sentimentOut = <<>>
    /\ sentimentDone = FALSE

AspectNames == <<"Comfort", "Safety", "Value">>

\* a review analysis is stored for one more aspect of the car
StoreReviewRow ==
    /\ ~sentimentDone
    /\ Len(reviewRows) < MaxRows
    /\ \E p \in 0..MaxCount, n \in 0..MaxCount, u \in 0..MaxCount :
          reviewRows' = Append(reviewRows,
              [aspect |-> AspectNames[(Len(reviewRows) % 3) + 1],
               positive_count |-> p, negative_count |-> n, neutral_count |-> u])
    /\ UNCHANGED <<sentimentOut, sentimentDone>>

\* getReviewSentiment(carId), the query answered without error
GetReviewSentiment ==
    /\ ~sentimentDone
    /\ sentimentOut' = [i \in 1..Len(reviewRows) |-> FormatSentiment(reviewRows[i])]
    /\ sentimentDone' = TRUE
    /\ UNCHANGED reviewRows

\* getReviewSentiment(carId), the query failed: the catch block returns []
GetReviewSentimentFailed ==
    /\ ~sentimentDone
    /\ sentimentOut' = <<>>
    /\ sentimentDone' = TRUE
    /\ UNCHANGED reviewRows

-----------------------------------------------------------------------------
(* knowledge service: generateVisualizationData, case 'trend' *)

\* events of the car in car_timeline
MaxEvents == 2

Years == {999, 1000, 2020}
EventTypes == {"safety", "performance", "technology", "design"}
Scores == {0, 2, 4}

TimelineEvents ==
    [year : Years, event_type : EventTypes, significance_score : Scores]

\* UTF-16 code unit of a decimal digit
CharCode(c) ==
    CASE c = "0" -> 48 [] c = "1" -> 49 [] c = "2" -> 50 [] c = "3" -> 51
      [] c = "4" -> 52 [] c = "5" -> 53 [] c = "6" -> 54 [] c = "7" -> 55
      [] c = "8" -> 56 [] c = "9" -> 57

\* a < b for strings: code unit by code unit, a proper prefix is smaller
RECURSIVE StringLess(_, _)
StringLess(a, b) ==
    IF Len(a) = 0 THEN Len(b) > 0
    ELSE IF Len(b) = 0 THEN FALSE
    ELSE IF SubSeq(a, 1, 1) = SubSeq(b, 1, 1)
         THEN StringLess(SubSeq(a, 2, Len(a)), SubSeq(b, 2, Len(b)))
         ELSE CharCode(SubSeq(a, 1, 1)) < CharCode(SubSeq(b, 1, 1))

\* the order Array.prototype.sort() puts two numbers in when it is given no
\* comparator: that of their strings
SortBefore(x, y) == StringLess(NatToString(x), NatToString(y))

\* [...new Set(xs)]: the distinct values in order of first occurrence
RECURSIVE Distinct(_)
Distinct(xs) ==
    IF xs = <<>> THEN <<>>
    ELSE LET front == Distinct(SubSeq(xs, 1, Len(xs) - 1))
             x == xs[Len(xs)]
         IN  IF \E i \in 1..Len(front) : front[i] = x THEN front
             ELSE Append(front, x)

\* xs.sort() for distinct numbers
RECURSIVE ArraySort(_)
ArraySort(xs) ==
    IF xs = <<>> THEN <<>>
    ELSE LET m == CHOOSE i \in 1..Len(xs) :
                      \A j \in 1..Len(xs) : j = i \/ SortBefore(xs[i], xs[j])
         IN  <<xs[m]>> \o ArraySort(SubSeq(xs, 1, m - 1) \o SubSeq(xs, m + 1, Len(xs)))

\* const years = [...new Set(timelineData.map(item => item.year))].sort()
TrendYears(timelineData) ==
    ArraySort(Distinct([i \in 1..Len(timelineData) |-> timelineData[i].year]))

\* timelineData.filter(item => item.year === year)
RECURSIVE YearEvents(_, _)
YearEvents(timelineData, year) ==
    IF timelineData = <<>> THEN <<>>
    ELSE (IF Head(timelineData).year = year THEN <<Head(timelineData)>> ELSE <<>>)
         \o YearEvents(Tail(timelineData), year)

\* yearEvents.find(e => e.event_type === type)?.significance_score:
\* <<score>> of the first such event, <<>> (undefined) when there is none
RECURSIVE FindScore(_, _)
FindScore(yearEvents, type) ==
    IF yearEvents = <<>> THEN <<>>
    ELSE IF Head(yearEvents).event_type = type
         THEN <<Head(yearEvents).significance_score>>
         ELSE FindScore(Tail(yearEvents), type)

\* x || null: undefined and 0 are falsy; null is <<>>
OrNull(x) == IF x = <<>> \/ x = <<0>> THEN <<>> ELSE x

SeriesValue(yearEvents, type) == OrNull(FindScore(yearEvents, type))

\* one element of timeSeriesData
TrendRow(timelineData, year) ==
    LET yearEvents == YearEvents(timelineData, year)
    IN  [label |-> NatToString(year),
         Safety |-> SeriesValue(yearEvents, "safety"),
         Performance |-> SeriesValue(yearEvents, "performance"),
         Technology |-> SeriesValue(yearEvents, "technology")]

TimeSeriesData(timelineData) ==
    LET years == TrendYears(timelineData)
    IN  [i \in 1..Len(years) |-> TrendRow(timelineData, years[i])]

TrendInit ==
    /\ timeline = <<>>
    /\ trendOut = <<>>
    /\ trendDone = FALSE

\* one more event of the car is in car_timeline; getCarTimeline orders by
\* year, events of one year come in any order
StoreTimelineEvent ==
    /\ ~trendDone
    /\ Len(timeline) < MaxEvents
    /\ \E e \in TimelineEvents : \E k \in 0..Len(timeline) :
          /\ \A i \in 1..k : timeline[i].year <= e.year
          /\ \A i \in (k + 1)..Len(timeline) : e.year <= timeline[i].year
          /\ timeline' = SubSeq(timeline, 1, k) \o <<e>>
                         \o SubSeq(timeline, k + 1, Len(timeline))
    /\ UNCHANGED <<trendOut, trendDone>>

\* generateVisualizationData('trend', carData), the timeline fetched
ShapeTrend ==
    /\ ~trendDone
    /\ trendOut' = TimeSeriesData(timeline)
    /\ trendDone' = TRUE
    /\ UNCHANGED timeline

\* generateVisualizationData('trend', carData), getCarTimeline failed and
\* returned []
ShapeTrendNoData ==
    /\ ~trendDone
    /\ timeline' = <<>>
    /\ trendOut' = TimeSeriesData(<<>>)
    /\ trendDone' = TRUE

-----------------------------------------------------------------------------
(* knowledge service: determineVisualizationType *)

\* phrases a query is made of
MaxPhrases == 4

Vocabulary ==
    {"compare ", "it ", "to ", "Vs", "similar ", "history of ", "reviews", "safety",
     "improved "}

UpperCaseLetters == "ABCDEFGHIJKLMNOPQRSTUVWXYZ"
LowerCaseLetters == "abcdefghijklmnopqrstuvwxyz"

LowerChar(c) ==
    IF \E i \in 1..26 : SubSeq(UpperCaseLetters, i, i) = c
    THEN LET i == CHOOSE i \in 1..26 : SubSeq(UpperCaseLetters, i, i) = c
         IN  SubSeq(LowerCaseLetters, i, i)
    ELSE c

\* String.prototype.toLowerCase
RECURSIVE ToLowerCase(_)
ToLowerCase(s) ==
    IF Len(s) = 0 THEN s
    ELSE LowerChar(SubSeq(s, 1, 1)) \o ToLowerCase(SubSeq(s, 2, Len(s)))

IndexesOf(s, sub) ==
    {i \in 1..(Len(s) - Len(sub) + 1) : SubSeq(s, i, i + Len(sub) - 1) = sub}

\* String.prototype.includes, and a regular expression that is one literal
Contains(s, sub) == IndexesOf(s, sub) # {}

\* the regular expression  a.*b : a, any characters but line breaks, b
MatchesThen(s, a, b) ==
    \E i \in IndexesOf(s, a) : \E j \in IndexesOf(s, b) :
        /\ j >= i + Len(a)
        /\ ~Contains(SubSeq(s, i + Len(a), j - 1), "\n")

\* typePatterns.some(pattern => pattern.test(lowerQuery)), per key of patterns;
\* a trailing .* matches the empty string
GroupMatches(type, q) ==
    CASE type = "comparison" ->
            \/ \E w \in {"with", "to", "against"} :
                  MatchesThen(q, "compare ", " " \o w \o " ")
            \/ MatchesThen(q, "difference between ", " and ")
            \/ MatchesThen(q, "how does ", " stack up ")
            \/ Contains(q, "versus") \/ Contains(q, "vs")
            \/ Contains(q, "better than") \/ Contains(q, "worse than")
      [] type = "trend" ->
            \/ Contains(q, "evolution of ")
            \/ Contains(q, "changes over time ")
            \/ Contains(q, "history of ")
            \/ MatchesThen(q, "how has ", " changed")
            \/ Contains(q, "timeline")
            \/ Contains(q, "development")
      [] type = "sentiment" ->
            \/ \E w \in {"people", "owners", "users", "customers"} :
                  Contains(q, "what do " \o w \o " think")
            \/ Contains(q, "reviews")
            \/ Contains(q, "sentiment")
            \/ Contains(q, "opinion")
            \/ Contains(q, "like") \/ Contains(q, "dislike")
            \/ Contains(q, "positive") \/ Contains(q, "negative")
            \/ Contains(q, "feedback")
      [] type = "relationship" ->
            \/ Contains(q, "related to")
            \/ Contains(q, "connections between")
            \/ Contains(q, "relationship with")
            \/ Contains(q, "similar to") \/ Contains(q, "similar models")
            \/ Contains(q, "family tree")
            \/ Contains(q, "predecessors") \/ Contains(q, "successors")

\* the keys of patterns in alphabetical order
PatternOrder_Alphabetical == <<"comparison", "relationship", "sentiment", "trend">>

\* Object.entries(patterns): the keys in the order the literal lists them
PatternOrder == <<"comparison", "trend", "sentiment", "relationship">>

\* the for loop over Object.entries(patterns); "null" when it falls through
RECURSIVE FirstMatchingType(_, _)
FirstMatchingType(order, q) ==
    IF order = <<>> THEN "null"
    ELSE IF GroupMatches(Head(order), q) THEN Head(order)
    ELSE FirstMatchingType(Tail(order), q)

FeatureTerms ==
    {"performance", "safety", "reliability", "comfort",
     "fuel economy", "technology", "value", "styling"}

\* the feature-inquiry branch with the trend cues tested first
FeatureInquiry_TrendFirst(q) ==
    IF \E term \in FeatureTerms : Contains(q, term)
    THEN IF Contains(q, "history") \/ Contains(q, "improved") THEN "trend"
         ELSE IF Contains(q, "compare") \/ Contains(q, "other") THEN "comparison"
         ELSE "sentiment"
    ELSE "null"

\* the feature-inquiry branch
FeatureInquiry(q) ==
    IF \E term \in FeatureTerms : Contains(q, term)
    THEN IF Contains(q, "compare") \/ Contains(q, "other") THEN "comparison"
         ELSE IF Contains(q, "history") \/ Contains(q, "improved") THEN "trend"
         ELSE "sentiment"
    ELSE "null"

\* an argument: a string, or a value of another type (text is "" then)
StringQuery(text) == [type |-> "string", text |-> text]
OtherQuery(type) == [type |-> type, text |-> ""]

\* determineVisualizationType(query); "null" is null
determineVisualizationType(q) ==
    IF q.type # "string" \/ q.text = "" THEN "null"
    ELSE LET lowerQuery == ToLowerCase(q.text)
             type == FirstMatchingType(PatternOrder, lowerQuery)
         IN  IF type # "null" THEN type ELSE FeatureInquiry(lowerQuery)

VizInit ==
    /\ query = StringQuery("")
    /\ queryParts = 0
    /\ vizType = "unset"

\* the caller builds the query text, phrase by phrase
AddPhrase ==
    /\ vizType = "unset"
    /\ query.type = "string"
    /\ queryParts < MaxPhrases
    /\ \E w \in Vocabulary : query' = StringQuery(query.text \o w)
    /\ queryParts' = queryParts + 1
    /\ UNCHANGED vizType

\* the caller holds something that is no string
PassOtherValue ==
    /\ vizType = "unset"
    /\ queryParts = 0
    /\ query.type = "string"
    /\ \E t \in {"undefined", "number", "object"} : query' = OtherQuery(t)
    /\ UNCHANGED <<queryParts, vizType>>

\* the call
Classify ==
    /\ vizType = "unset"
    /\ vizType' = determineVisualizationType(query)
    /\ UNCHANGED <<query, queryParts>>

-----------------------------------------------------------------------------
(* knowledge service: the four accessors *)

\* rows a store query answers with, in the specification of the accessors
MaxQueryRows == 2

(* What `await supabase.from(...)...` gives: kind "data" is {data: rows,      *)
(* error: null}, kind "error" is {data: null, error}, kind "throws" is a      *)
(* rejected promise.                                                          *)
QueryData(rows) == [kind |-> "data", rows |-> rows]
QueryError == [kind |-> "error", rows |-> <<>>]
QueryThrows == [kind |-> "throws", rows |-> <<>>]

\* how a call completes
Return(v) == [kind |-> "return", value |-> v]
Throw == [kind |-> "throw", value |-> <<>>]
Pending == [kind |-> "pending", value |-> <<>>]

\* the accessor without its catch block
Catch_Missing(body, fallback) == body

\* try { body } catch (error) { console.error(...); return fallback; }
Catch(body, fallback) ==
    IF body.kind = "throw" THEN Return(fallback) ELSE body

\* the cars of the store; carData is the primary one
PrimaryCar == [id |-> "car1", year |-> 2022, manufacturer |-> "Honda", model |-> "Civic"]
OtherCars ==
    { [id |-> "car2", year |-> 2021, manufacturer |-> "Toyota", model |-> "Corolla"],
      [id |-> "car3", year |-> 2020, manufacturer |-> "Mazda", model |-> "3"] }

RelationshipTypes == {"competitor", "predecessor"}

\* a car_relationships row with its joined target_cars (<<>> is a null join)
RelationshipRow(target, type) ==
    [target_cars |-> target, relationship_type |-> type,
     relationship_strength |-> IF type = "competitor" THEN 8 ELSE 5]

\* rows whose join found the target car
JoinedRelationshipRows ==
    {RelationshipRow(<<c>>, t) : c \in OtherCars, t \in RelationshipTypes}

\* all rows, the ones without a target car included
RelationshipRows ==
    JoinedRelationshipRows \cup {RelationshipRow(<<>>, t) : t \in RelationshipTypes}

\* relationships.map(rel => ({id, label, type, strength, metadata}))
FormatRelationship(rel) ==
    [id |-> rel.target_cars[1].id,
     label |-> CarName(rel.target_cars[1]),
     type |-> rel.relationship_type,
     strength |-> rel.relationship_strength]

\* getCarRelationships(carId): the try block.  rel.target_cars.id of a null
\* join is a TypeError.
getCarRelationshipsTry(q) ==
    IF q.kind # "data" THEN Throw
    ELSE IF \E i \in 1..Len(q.rows) : q.rows[i].target_cars = <<>> THEN Throw
    ELSE Return([i \in 1..Len(q.rows) |-> FormatRelationship(q.rows[i])])

getCarRelationships(q) == Catch(getCarRelationshipsTry(q), <<>>)

\* a car_features row; ratings are in tenths, feature_value is null
FeatureRows ==
    [car_id : {"car1", "car2"}, category : {"Performance", "Value"},
     feature_name : {"overall", "horsepower"}, feature_rating : {0, 40}]

\* feat.feature_rating || feat.feature_value: <<rating>>, or <<>> (null)
FeatureValue(feat) ==
    IF feat.feature_rating # 0 THEN <<feat.feature_rating>> ELSE <<>>

\* the positions of the rows of a car, a category and (for ByName) a name
FeaturesOf(rows, id, category) ==
    {i \in 1..Len(rows) : rows[i].car_id = id /\ rows[i].category = category}

FeaturesByName(rows, id, category, name) ==
    {i \in FeaturesOf(rows, id, category) : rows[i].feature_name = name}

\* the reduce: a later row of the same feature_name overwrites an earlier one
CategoryFeatures(rows, id, category) ==
    [name \in {rows[i].feature_name : i \in FeaturesOf(rows, id, category)} |->
        LET last == CHOOSE i \in FeaturesByName(rows, id, category, name) :
                        \A j \in FeaturesByName(rows, id, category, name) : j <= i
        IN  FeatureValue(rows[last])]

\* result[id]: one entry per category the car has rows of
CarFeatures(rows, id) ==
    [category \in {rows[i].category : i \in {j \in 1..Len(rows) : rows[j].car_id = id}}
        |-> CategoryFeatures(rows, id, category)]

\* getCarFeatures(carIds): the try block, the mapping id -> category -> name
getCarFeaturesTry(q, carIds) ==
    IF q.kind # "data" THEN Throw
    ELSE Return([id \in {carIds[i] : i \in 1..Len(carIds)} |-> CarFeatures(q.rows, id)])

\* the empty mapping {}
EmptyMapping == [id \in {} |-> {}]

getCarFeatures(q, carIds) == Catch(getCarFeaturesTry(q, carIds), EmptyMapping)

\* getCarTimeline(carId): the events as the store ordered them
getCarTimelineTry(q) ==
    IF q.kind # "data" THEN Throw ELSE Return(q.rows)

getCarTimeline(q) == Catch(getCarTimelineTry(q), <<>>)

\* getReviewSentiment(carId): sentiment.map(item => ({...}))
getReviewSentimentTry(q) ==
    IF q.kind # "data" THEN Throw
    ELSE Return([i \in 1..Len(q.rows) |-> FormatSentiment(q.rows[i])])

getReviewSentiment(q) == Catch(getReviewSentimentTry(q), <<>>)

\* review_analysis rows of three kinds: one mention, all positive; fifteen
\* mentions in equal thirds; four mentions, half positive and half negative
AggregateSamples ==
    { [positive_count |-> 1, negative_count |-> 0, neutral_count |-> 0],
      [positive_count |-> 5, negative_count |-> 5, neutral_count |-> 5],
      [positive_count |-> 2, negative_count |-> 2, neutral_count |-> 0] }

\* the row of the k-th aspect of the car
AggregateRow(k, sample) ==
    [aspect |-> "aspect" \o NatToString(k),
     positive_count |-> sample.positive_count,
     negative_count |-> sample.negative_count,
     neutral_count |-> sample.neutral_count]

\* the events of one year, so that any order of them is ascending by year
TimelineRows == {e \in TimelineEvents : e.year = 2020}

AccessorNames ==
    {"getCarRelationships", "getCarFeatures", "getCarTimeline", "getReviewSentiment"}

\* the ids getCarFeatures is asked about
AccessorCarIds == <<"car1", "car2">>

\* the rows the table of an accessor holds
RowsFor(fn, k) ==
    CASE fn = "getCarRelationships" -> RelationshipRows
      [] fn = "getCarFeatures" -> FeatureRows
      [] fn = "getCarTimeline" -> TimelineRows
      [] fn = "getReviewSentiment" -> {AggregateRow(k, s) : s \in AggregateSamples}

Accessor(fn, q) ==
    CASE fn = "getCarRelationships" -> getCarRelationships(q)
      [] fn = "getCarFeatures" -> getCarFeatures(q, AccessorCarIds)
      [] fn = "getCarTimeline" -> getCarTimeline(q)
      [] fn = "getReviewSentiment" -> getReviewSentiment(q)

AccessorInit ==
    /\ accFn = "none"
    /\ accQuery = QueryData(<<>>)
    /\ accResult = Pending

\* one of the accessors is about to be called
BeginAccessor ==
    /\ accFn = "none"
    /\ accFn' \in AccessorNames
    /\ UNCHANGED <<accQuery, accResult>>

\* its table holds one more row of the car
QueryReturnsRow ==
    /\ accFn # "none"
    /\ accResult.kind = "pending"
    /\ accQuery.kind = "data"
    /\ Len(accQuery.rows) < MaxQueryRows
    /\ \E row \in RowsFor(accFn, Len(accQuery.rows) + 1) :
          accQuery' = QueryData(Append(accQuery.rows, row))
    /\ UNCHANGED <<accFn, accResult>>

\* the store or the transport fails
QueryFails ==
    /\ accFn # "none"
    /\ accResult.kind = "pending"
    /\ accQuery.kind = "data"
    /\ accQuery' \in {QueryError, QueryThrows}
    /\ UNCHANGED <<accFn, accResult>>

\* the call
CallAccessor ==
    /\ accFn # "none"
    /\ accResult.kind = "pending"
    /\ accResult' = Accessor(accFn, accQuery)
    /\ UNCHANGED <<accFn, accQuery>>

-----------------------------------------------------------------------------
(* knowledge service: generateVisualizationData, the cases 'comparison',      *)
(* 'sentiment' and 'relationship'                                             *)

\* rows of the car in car_relationships
MaxRelationships == 3
\* rows of the compared cars in car_features
MaxFeatures == 1
\* rows of the car in review_analysis
MaxAggregates == 8

\* relationships.filter(rel => rel.type === 'competitor'), all of them
Competitors_NoLimit(relationships) ==
    SelectSeq(relationships, LAMBDA rel : rel.type = "competitor")

\* relationships.filter(rel => rel.type === 'competitor').slice(0, 2)
Competitors(relationships) ==
    LET matching == SelectSeq(relationships, LAMBDA rel : rel.type = "competitor")
    IN  SubSeq(matching, 1, Min(2, Len(matching)))

Categories == <<"Performance", "Comfort", "Safety", "Technology", "Value">>

\* Math.random() in tenths: what a call may give
RandomDraws == {0, 9}

\* the k-th call of Math.random() of a run whose calls give stream[1] and
\* stream[2] in turn
Draw(stream, k) == IF k % 2 = 1 THEN stream[1] ELSE stream[2]

\* features[id][cat]?.overall || Math.random() * 2 + 3, in tenths
ComparisonValue(features, id, cat, draw) ==
    LET car == features[id]
        overall == IF cat \in DOMAIN car /\ "overall" \in DOMAIN car[cat]
                   THEN car[cat]["overall"] ELSE <<>>
    IN  IF overall # <<>>
        THEN [kind |-> "score", value |-> overall[1]]
        ELSE [kind |-> "placeholder", value |-> draw * 2 + 30]

\* the entities of the comparison payload
ComparisonEntities(car, competitors) ==
    <<[id |-> car.id, name |-> CarName(car), color |-> "#8884d8"]>> \o
    [i \in 1..Len(competitors) |->
        [id |-> competitors[i].id, name |-> competitors[i].label,
         color |-> IF i = 1 THEN "#82ca9d" ELSE "#ffc658"]]

\* case 'comparison'.  With features the empty mapping, features[carData.id]
\* is undefined and features[carData.id][cat] is a TypeError, which nothing
\* catches.
ShapeComparison(car, relQ, featQ, stream) ==
    LET relationships == getCarRelationships(relQ).value
        competitors == Competitors(relationships)
        carIds == <<car.id>> \o [i \in 1..Len(competitors) |-> competitors[i].id]
        features == getCarFeatures(featQ, carIds).value
    IN  IF DOMAIN features = {} THEN Throw
        ELSE Return(
          [categories |-> Categories,
           entities |-> ComparisonEntities(car, competitors),
           values |->
             [e \in 1..Len(carIds) |->
                [c \in 1..Len(Categories) |->
                    ComparisonValue(features, carIds[e], Categories[c],
                                    Draw(stream, (e - 1) * Len(Categories) + c))]]])

\* positive + negative of a formatted aspect
Mentioned(a) == a.positive.num + a.negative.num

\* Array.prototype.sort with (a, b) => (b.positive + b.negative) -
\* (a.positive + a.negative): descending, equal elements keep their order
RECURSIVE SortByMentioned(_)
SortByMentioned(xs) ==
    IF xs = <<>> THEN <<>>
    ELSE LET m == CHOOSE i \in 1..Len(xs) :
                    /\ \A j \in 1..Len(xs) : Mentioned(xs[j]) <= Mentioned(xs[i])
                    /\ \A j \in 1..(i - 1) : Mentioned(xs[j]) < Mentioned(xs[i])
         IN  <<xs[m]>> \o
             SortByMentioned(SubSeq(xs, 1, m - 1) \o SubSeq(xs, m + 1, Len(xs)))

\* case 'sentiment'
ShapeSentiment(sentQ) ==
    LET sentimentData == getReviewSentiment(sentQ).value
        sorted == SortByMentioned(sentimentData)
    IN  Return([aspectData |-> SubSeq(sorted, 1, Min(7, Len(sorted)))])

\* links of the relationship payload, every second relationship only
RelationshipLinks_Skipping(car, allRelationships) ==
    [i \in 1..(Len(allRelationships) \div 2) |->
        [source |-> car.id, target |-> allRelationships[2 * i].id,
         type |-> allRelationships[2 * i].type,
         strength |-> allRelationships[2 * i].strength]]

\* allRelationships.map(rel => ({source, target, type, strength}))
RelationshipLinks(car, allRelationships) ==
    [i \in 1..Len(allRelationships) |->
        [source |-> car.id, target |-> allRelationships[i].id,
         type |-> allRelationships[i].type,
         strength |-> allRelationships[i].strength]]

\* case 'relationship'
ShapeRelationship(car, relQ) ==
    LET allRelationships == getCarRelationships(relQ).value
    IN  Return(
          [primaryNode |-> [id |-> car.id, label |-> CarName(car)],
           nodes |->
             <<[id |-> car.id, label |-> CarName(car), type |-> "primary"]>> \o
             [i \in 1..Len(allRelationships) |->
                [id |-> allRelationships[i].id,
                 label |-> allRelationships[i].label,
                 type |-> allRelationships[i].type]],
           links |-> RelationshipLinks(car, allRelationships)])

ShapingInit ==
    /\ shapeType = "none"
    /\ relQuery = QueryData(<<>>)
    /\ featQuery = QueryData(<<>>)
    /\ sentQuery = QueryData(<<>>)
    /\ shapeOut = Pending

ShapeTypes == {"comparison", "sentiment", "relationship"}

\* the chat classified the query: generateVisualizationData(type, carData)
\* is about to be called
BeginShaping ==
    /\ shapeType = "none"
    /\ shapeType' \in ShapeTypes
    /\ UNCHANGED <<relQuery, featQuery, sentQuery, shapeOut>>

\* car_relationships holds one more row of the car
StoreRelationship ==
    /\ shapeType \in {"comparison", "relationship"}
    /\ shapeOut.kind = "pending"
    /\ relQuery.kind = "data"
    /\ Len(relQuery.rows) < MaxRelationships
    /\ \E row \in JoinedRelationshipRows :
          relQuery' = QueryData(Append(relQuery.rows, row))
    /\ UNCHANGED <<shapeType, featQuery, sentQuery, shapeOut>>

\* the car_relationships query fails
RelationshipQueryFails ==
    /\ shapeType \in {"comparison", "relationship"}
    /\ shapeOut.kind = "pending"
    /\ relQuery.kind = "data"
    /\ relQuery' \in {QueryError, QueryThrows}
    /\ UNCHANGED <<shapeType, featQuery, sentQuery, shapeOut>>

\* car_features holds one more row
StoreFeature ==
    /\ shapeType = "comparison"
    /\ shapeOut.kind = "pending"
    /\ featQuery.kind = "data"
    /\ Len(featQuery.rows) < MaxFeatures
    /\ \E row \in FeatureRows :
          featQuery' = QueryData(Append(featQuery.rows, row))
    /\ UNCHANGED <<shapeType, relQuery, sentQuery, shapeOut>>

\* the car_features query fails
FeatureQueryFails ==
    /\ shapeType = "comparison"
    /\ shapeOut.kind = "pending"
    /\ featQuery.kind = "data"
    /\ featQuery' \in {QueryError, QueryThrows}
    /\ UNCHANGED <<shapeType, relQuery, sentQuery, shapeOut>>

\* review_analysis holds one more aspect of the car
StoreAggregate ==
    /\ shapeType = "sentiment"
    /\ shapeOut.kind = "pending"
    /\ sentQuery.kind = "data"
    /\ Len(sentQuery.rows) < MaxAggregates
    /\ \E s \in AggregateSamples :
          sentQuery' = QueryData(Append(sentQuery.rows,
                                        AggregateRow(Len(sentQuery.rows) + 1, s)))
    /\ UNCHANGED <<shapeType, relQuery, featQuery, shapeOut>>

\* the review_analysis query fails
AggregateQueryFails ==
    /\ shapeType = "sentiment"
    /\ shapeOut.kind = "pending"
    /\ sentQuery.kind = "data"
    /\ sentQuery' \in {QueryError, QueryThrows}
    /\ UNCHANGED <<shapeType, relQuery, featQuery, shapeOut>>

\* generateVisualizationData('comparison', carData)
GenerateComparison ==
    /\ shapeType = "comparison"
    /\ shapeOut.kind = "pending"
    /\ \E stream \in RandomDraws \X RandomDraws :
          shapeOut' = ShapeComparison(PrimaryCar, relQuery, featQuery, stream)
    /\ UNCHANGED <<shapeType, relQuery, featQuery, sentQuery>>

\* generateVisualizationData('sentiment', carData)
GenerateSentiment ==
    /\ shapeType = "sentiment"
    /\ shapeOut.kind = "pending"
    /\ shapeOut' = ShapeSentiment(sentQuery)
    /\ UNCHANGED <<shapeType, relQuery, featQuery, sentQuery>>

\* generateVisualizationData('relationship', carData)
GenerateRelationship ==
    /\ shapeType = "relationship"
    /\ shapeOut.kind = "pending"
    /\ shapeOut' = ShapeRelationship(PrimaryCar, relQuery)
    /\ UNCHANGED <<shapeType, relQuery, featQuery, sentQuery>>

-----------------------------------------------------------------------------
(* EnhancedChatInterface: the cards and the suggestions of a reply *)

\* messages.length in the closure of a handleSend
MaxMessagesLength == 4
\* conversationLength passed to generateSuggestions
MaxTurns == 4

\* entries of category_scores, common_pros and common_cons; -1 when absent
FieldSizes == {-1, 0, 2}
\* average_rating; -1 when absent
Ratings == {-1, 0, 4}

AnalysisBodies ==
    [category_scores : FieldSizes, common_pros : FieldSizes,
     common_cons : FieldSizes, sentiment : {-1, 1}, average_rating : Ratings]

\* the /api/chat response bodies handleSend builds the cards from
ChatBodies ==
    {[response |-> "", car_data |-> c, hasAnalysis |-> TRUE, analysis |-> a,
      intent |-> ""] : c \in {<<>>, <<TheCar>>}, a \in AnalysisBodies}
    \cup {[response |-> "", car_data |-> c, hasAnalysis |-> FALSE,
           analysis |-> NoAnalysis, intent |-> ""] : c \in {<<>>, <<TheCar>>}}

CardsInit ==
    /\ cardData = [response |-> "", car_data |-> <<>>, hasAnalysis |-> FALSE,
                   analysis |-> NoAnalysis, intent |-> ""]
    /\ cardLength = 1
    /\ cardComponents = <<"unset">>

\* const data = await response.json(), in a handleSend whose closure holds
\* a list of n messages
ReceiveBody ==
    /\ cardComponents = <<"unset">>
    /\ \E d \in ChatBodies : \E n \in 1..MaxMessagesLength :
          /\ cardData' = d
          /\ cardLength' = n
    /\ UNCHANGED cardComponents

\* handleSend fills aiResponse.components
BuildComponents ==
    /\ cardComponents = <<"unset">>
    /\ cardComponents' = Components(cardData, cardLength)
    /\ UNCHANGED <<cardData, cardLength>>

Entities == {TheCar, [year |-> 1999, manufacturer |-> "Kia", model |-> "Rio"]}

\* data.intent?.primaryIntent; "" when there is none
Intents == {"", "fuel_economy", "performance", "reliability", "safety", "pricing"}

SuggestionsInit ==
    /\ sugContext = [carData |-> <<>>, intent |-> "", conversationLength |-> 0]
    /\ sugOut = <<>>

\* the caller builds the context object
SetSuggestionContext ==
    /\ sugOut = <<>>
    /\ \E c \in {<<>>} \cup {<<e>> : e \in Entities} :
         \E i \in Intents : \E n \in 0..MaxTurns :
            sugContext' = [carData |-> c, intent |-> i, conversationLength |-> n]
    /\ UNCHANGED sugOut

\* generateSuggestions(context)
CallGenerateSuggestions ==
    /\ sugOut = <<>>
    /\ sugOut' = generateSuggestions(sugContext.carData, sugContext.intent,
                                     sugContext.conversationLength)
    /\ UNCHANGED sugContext

-----------------------------------------------------------------------------
(* ReviewAnalysis: handleGenerateReview *)

\* handleGenerateReview calls that pass the carData guard in one run
MaxGenerations == 2

RECURSIVE Repeat(_, _)
Repeat(s, n) == IF n = 0 THEN "" ELSE s \o Repeat(s, n - 1)

\* a parsed JSON value: an object (an absent field is <<>>, is_mock is its
\* truthiness), or null
JsonObject(title, text, mock, author) ==
    [kind |-> "object", review_title |-> title, review_text |-> text,
     is_mock |-> mock, author |-> author]
JsonNull == [kind |-> "null"]

ReviewJson == "{\"review_title\":\"Great\",\"review_text\":\"Solid car\"}"
MockJson == "{\"review_text\":\"Fine\",\"author\":\"AI Assistant\"}"
OtherShapeJson == "{\"detail\":\"accepted\"}"
HtmlPage == "<html>Bad Gateway</html>"
\* 600 characters that are no JSON
LongPage == Repeat("<p>error</p>", 50)

\* what response.text() resolves to
ResponseTexts ==
    {ReviewJson, MockJson, OtherShapeJson, "null", "", HtmlPage, LongPage}

\* what it resolves to when the status is not ok
ErrorTexts == {HtmlPage, "{\"detail\":\"OpenAI quota exceeded\"}"}

\* JSON.parse on the response texts
JsonParse(text) ==
    CASE text = ReviewJson ->
            Return(JsonObject(<<"Great">>, <<"Solid car">>, FALSE, <<>>))
      [] text = MockJson ->
            Return(JsonObject(<<>>, <<"Fine">>, FALSE, <<"AI Assistant">>))
      [] text = OtherShapeJson -> Return(JsonObject(<<>>, <<>>, FALSE, <<>>))
      [] text = "null" -> Return(JsonNull)
      [] OTHER -> Throw

\* the review of the inner catch block
BestEffortReview(responseText) ==
    JsonObject(<<"AI Generated Review">>,
               <<Substring0(responseText, 500) \o "...">>, FALSE, <<>>)

\* the quota test of the second version of the component; it reads a
\* property of reviewData, which throws a TypeError on null
QuotaTest(reviewData, responseText) ==
    IF reviewData.kind = "null" THEN Throw
    ELSE Return(\/ reviewData.is_mock
                \/ Contains(ToLowerCase(responseText), "quota")
                \/ Contains(ToLowerCase(responseText), "mock")
                \/ reviewData.author = <<"AI Assistant">>)

\* the component is not mounted yet; component is 1 for the file's first
\* ReviewAnalysis and 2 for the fallback-aware one
ReviewState(component, isLoading, car) ==
    [component |-> component, carData |-> car, loading |-> isLoading,
     generating |-> FALSE, error |-> "", reviewGenerated |-> FALSE,
     generatedReview |-> JsonNull, apiQuotaExceeded |-> FALSE]

IdleCall == [stage |-> "idle", ok |-> FALSE, responseText |-> ""]

ReviewInit ==
    /\ review = ReviewState(0, TRUE, FALSE)
    /\ reviewCall = IdleCall
    /\ nGenerations = 0

\* the component mounts with a carId: useState initial values, and the
\* effect starts fetchBasicCarData
MountReviewAnalysis ==
    /\ review.component = 0
    /\ \E c \in {1, 2} : review' = ReviewState(c, TRUE, FALSE)
    /\ UNCHANGED <<reviewCall, nGenerations>>

\* fetchBasicCarData completes, with the car or with an error
CarDataArrives ==
    /\ review.component # 0
    /\ review.loading
    /\ \/ review' = [review EXCEPT !.carData = TRUE, !.loading = FALSE]
       \/ review' = [review EXCEPT !.error = "Failed to fetch car: 500",
                                   !.loading = FALSE]
    /\ UNCHANGED <<reviewCall, nGenerations>>

\* the Retry button of the error view: fetchBasicCarData again
RetryCarData ==
    /\ review.component # 0
    /\ ~review.loading
    /\ review.error # ""
    /\ review' = [review EXCEPT !.loading = TRUE, !.error = ""]
    /\ UNCHANGED <<reviewCall, nGenerations>>

\* the button 'Generate AI Review' (rendered when the car is loaded and no
\* error is shown, disabled while generating): handleGenerateReview up to
\* its await fetch
ClickGenerateReview ==
    /\ review.component # 0
    /\ ~review.loading /\ review.error = "" /\ review.carData
    /\ ~review.generating
    /\ nGenerations < MaxGenerations
    /\ review' = [review EXCEPT !.generating = TRUE, !.error = "",
                                !.reviewGenerated = FALSE,
                                !.generatedReview = JsonNull,
                                !.apiQuotaExceeded = FALSE]
    /\ reviewCall' = [IdleCall EXCEPT !.stage = "fetch"]
    /\ nGenerations' = nGenerations + 1

\* fetch resolves with a response; response.text() is awaited next
GenerateResponds ==
    /\ reviewCall.stage = "fetch"
    /\ \/ \E t \in ResponseTexts :
             reviewCall' = [stage |-> "text", ok |-> TRUE, responseText |-> t]
       \/ \E t \in ErrorTexts :
             reviewCall' = [stage |-> "text", ok |-> FALSE, responseText |-> t]
    /\ UNCHANGED <<review, nGenerations>>

\* the outer catch and the finally block
GenerateFailed(message) ==
    [review EXCEPT
        !.error = message,
        !.apiQuotaExceeded =
            review.component = 2 /\ Contains(ToLowerCase(message), "quota"),
        !.generating = FALSE]

\* fetch rejects
GenerateRejects ==
    /\ reviewCall.stage = "fetch"
    /\ review' = GenerateFailed("Failed to fetch")
    /\ reviewCall' = [IdleCall EXCEPT !.stage = "rejected"]
    /\ UNCHANGED nGenerations

\* handleGenerateReview from `if (!response.ok)` to the end
GenerateCompletes ==
    /\ reviewCall.stage = "text"
    /\ LET responseText == reviewCall.responseText
           parsed == JsonParse(responseText)
           quota == IF parsed.kind = "throw" THEN Throw
                    ELSE IF review.component = 1 THEN Return(FALSE)
                    ELSE QuotaTest(parsed.value, responseText)
       IN  review' =
             IF ~reviewCall.ok
             THEN GenerateFailed("Generate AI Review error: " \o responseText)
             ELSE IF quota.kind = "throw"
             THEN [review EXCEPT
                      !.generatedReview = BestEffortReview(responseText),
                      !.reviewGenerated = TRUE,
                      !.generating = FALSE]
             ELSE [review EXCEPT
                      !.generatedReview = parsed.value,
                      !.reviewGenerated = TRUE,
                      !.apiQuotaExceeded = quota.value,
                      !.generating = FALSE]
    /\ reviewCall' = [reviewCall EXCEPT !.stage = "done"]
    /\ UNCHANGED nGenerations

-----------------------------------------------------------------------------
(* CarImageService: getCarImageUrl *)

\* JavaScript values a car field can hold
Undefined == [kind |-> "undefined"]
Null == [kind |-> "null"]
Str(s) == [kind |-> "string", s |-> s]
Num(n) == [kind |-> "number", n |-> n]

\* ToBoolean
Truthy(v) ==
    \/ v.kind = "string" /\ v.s # ""
    \/ v.kind = "number" /\ v.n # 0

\* `${v}` in a template literal
TemplateString(v) ==
    CASE v.kind = "undefined" -> "undefined"
      [] v.kind = "null" -> "null"
      [] v.kind = "string" -> v.s
      [] v.kind = "number" -> NatToString(v.n)

\* a parameter with a default value: the default replaces undefined only
DefaultParameter(v, default) == IF v.kind = "undefined" THEN default ELSE v

\* s.replace(/\s+/g, '-')
RECURSIVE ReplaceWhiteSpace(_)
ReplaceWhiteSpace(s) ==
    IF Len(s) = 0 THEN s
    ELSE IF SubSeq(s, 1, 1) \in {" ", "\t"}
         THEN "-" \o ReplaceWhiteSpace(TrimStart(s))
         ELSE SubSeq(s, 1, 1) \o ReplaceWhiteSpace(SubSeq(s, 2, Len(s)))

\* encodeURIComponent on letters, digits and blanks
RECURSIVE EncodeURIComponent(_)
EncodeURIComponent(s) ==
    IF Len(s) = 0 THEN s
    ELSE (IF SubSeq(s, 1, 1) = " " THEN "%20" ELSE SubSeq(s, 1, 1))
         \o EncodeURIComponent(SubSeq(s, 2, Len(s)))

\* the arguments of getCarImageUrl: undefined, or a car whose fields are
\* missing, null or set
ImageCars ==
    {Undefined} \cup
    [kind : {"object"},
     manufacturer : {Undefined, Null, Str("Honda"), Str("Land Rover")},
     model : {Undefined, Null, Str("Civic")},
     year : {Undefined, Null, Num(2022)},
     body_type : {Undefined, Null, Str("SUV")}]

\* const { manufacturer, model, year, body_type } = car || {}
Destructure(car) ==
    IF car.kind = "undefined"
    THEN [manufacturer |-> Undefined, model |-> Undefined, year |-> Undefined,
          body_type |-> Undefined]
    ELSE car

\* getCarQueryImageUrl: null in every case
getCarQueryImageUrl(make, model, year) == Null

getCarPixUrl(make, model, year) ==
    IF ~Truthy(make) \/ ~Truthy(model) THEN ""
    ELSE "https://carpixs.com/images/illustrations/"
         \o ReplaceWhiteSpace(ToLowerCase(make.s)) \o "/"
         \o ReplaceWhiteSpace(ToLowerCase(model.s)) \o "/"
         \o TemplateString(year) \o "/side-view.png"

\* brandColor without a test of its argument: null.toLowerCase() is a
\* TypeError
brandColor(make) ==
    LET m == DefaultParameter(make, Str(""))
    IN  IF m.kind # "string" THEN Throw
        ELSE LET key == Trim(ToLowerCase(m.s))
             IN  Return(CASE key = "honda" -> "CC0000"
                          [] key = "toyota" -> "EB0A1E"
                          [] key = "kia" -> "BB162B"
                          [] OTHER -> "6B63CF")

getFallbackImageUrl(make0, model0, bodyType0, year0) ==
    LET make == DefaultParameter(make0, Str("car"))
        model == DefaultParameter(model0, Str(""))
        bodyType == DefaultParameter(bodyType0, Str("sedan"))
        year == DefaultParameter(year0, Str(""))
        type == ToLowerCase(IF Truthy(bodyType) THEN bodyType.s ELSE "sedan")
        mapped == CASE type = "sedan" -> "Sedan" [] type = "suv" -> "SUV"
                    [] type = "coupe" -> "Coupe" [] type = "pickup" -> "Truck"
                    [] type = "hatchback" -> "Hatchback"
                    [] type = "wagon" -> "Wagon"
                    [] type = "convertible" -> "Convertible"
                    [] OTHER -> "Car"
        color == brandColor(make)
        name == Trim(TemplateString(year) \o " " \o TemplateString(make)
                     \o " " \o TemplateString(model))
        label == EncodeURIComponent(IF name # "" THEN name ELSE mapped)
    IN  IF color.kind = "throw" THEN Throw
        ELSE Return("https://via.placeholder.com/400x200/" \o color.value
                    \o "/FFFFFF?text=" \o label)

\* how fetch(url, {method: 'HEAD', mode: 'no-cors'}) settles: a response that
\* is ok, an opaque one, one with an error status, or a rejection
ProbeOutcomes == {"ok", "opaque", "status", "reject"}

urlExists(url, probe) == probe \in {"ok", "opaque"}

\* getCarImageUrl(car) with the probe settling as given: how its promise settles
getCarImageUrl(car, probe) ==
    LET c == Destructure(car)
        cqUrl == getCarQueryImageUrl(c.manufacturer, c.model, c.year)
        cpUrl == getCarPixUrl(c.manufacturer, c.model, c.year)
    IN  IF Truthy(cqUrl) THEN Return(cqUrl.s)
        ELSE IF urlExists(cpUrl, probe) THEN Return(cpUrl)
        ELSE getFallbackImageUrl(c.manufacturer, c.model, c.body_type, c.year)

ImageInit ==
    /\ imageCar = <<>>
    /\ imageProbe = "none"
    /\ imageResult = Pending

\* a caller invokes getCarImageUrl(car); it runs up to the await in urlExists
CallGetCarImageUrl ==
    /\ imageCar = <<>>
    /\ \E car \in ImageCars : imageCar' = <<car>>
    /\ UNCHANGED <<imageProbe, imageResult>>

\* the probe settles and getCarImageUrl runs to its end
ProbeSettles ==
    /\ imageCar # <<>>
    /\ imageProbe = "none"
    /\ \E probe \in ProbeOutcomes :
          /\ imageProbe' = probe
          /\ imageResult' = getCarImageUrl(imageCar[1], probe)
    /\ UNCHANGED imageCar

-----------------------------------------------------------------------------
(* CarListing: the fetchCars effect *)

\* fetchCars invocations in one run
MaxRequests == 3

\* the cars the backend holds; their years are distinct
Catalogue ==
    << [id |-> 1, manufacturer |-> "Honda", year |-> 2022, body_type |-> "Sedan"],
       [id |-> 2, manufacturer |-> "Toyota", year |-> 2019, body_type |-> "SUV"],
       [id |-> 3, manufacturer |-> "Honda", year |-> 1999, body_type |-> "SUV"] >>

\* array.filter(keep)
ArrayFilter(array, keep(_)) == SelectSeq(array, keep)

\* the body of GET /api/cars?manufacturer=...: the cars of the manufacturer,
\* all cars without the parameter
ResponseData(manufacturer) ==
    LET Matches(car) == manufacturer = "" \/ car.manufacturer = manufacturer
    IN  ArrayFilter(Catalogue, Matches)

\* the comparator of sortCars for a numeric field without null values
Comparator(aVal, bVal, direction) ==
    IF direction = "asc" THEN (IF aVal > bVal THEN 1 ELSE -1)
    ELSE (IF aVal < bVal THEN 1 ELSE -1)

\* sortCars(array, 'year', direction)
RECURSIVE sortCars(_, _)
sortCars(array, direction) ==
    IF array = <<>> THEN <<>>
    ELSE LET m == CHOOSE i \in 1..Len(array) :
                      \A j \in 1..Len(array) :
                          j = i \/ Comparator(array[i].year, array[j].year,
                                              direction) < 0
         IN  <<array[m]>> \o sortCars(SubSeq(array, 1, m - 1)
                                      \o SubSeq(array, m + 1, Len(array)),
                                      direction)

Includes(array, x) == \E i \in 1..Len(array) : array[i] = x

\* what fetchCars passes to setCars for a response, with the filter values
\* of its closure
FilteredData(data, f) ==
    LET sortedData == sortCars(data, f.sortDirection)
        OfType(car) ==
            Len(f.selectedBodyTypes) = 0 \/ Includes(f.selectedBodyTypes, car.body_type)
        InRange(car) == car.year >= f.yearRange[1] /\ car.year <= f.yearRange[2]
    IN  ArrayFilter(ArrayFilter(sortedData, OfType), InRange)

\* the filter values a render holds
Filters ==
    [selectedManufacturer |-> listing.selectedManufacturer,
     sortDirection |-> listing.sortDirection,
     selectedBodyTypes |-> listing.selectedBodyTypes,
     yearRange |-> listing.yearRange]

ListingInit ==
    /\ listing = [cars |-> <<>>, loading |-> TRUE, dbChecked |-> FALSE,
                  selectedManufacturer |-> "", sortField |-> "year",
                  sortDirection |-> "desc", selectedBodyTypes |-> <<>>,
                  yearRange |-> <<2000, 2023>>]
    /\ listRequests = {}
    /\ nRequests = 0
    /\ shownFor = [id |-> 0, ok |-> FALSE]

(* The effect: after a render in which one of its dependencies changed it    *)
(* runs fetchCars, once dbStatus.checked holds, up to the await; the request *)
(* keeps the filter values of that render.                                    *)
FetchCarsEffect(next) ==
    IF next.dbChecked
    THEN /\ nRequests < MaxRequests
         /\ listing' = [next EXCEPT !.loading = TRUE]
         /\ nRequests' = nRequests + 1
         /\ listRequests' = listRequests \cup
               {[id |-> nRequests + 1,
                 filters |-> [selectedManufacturer |-> next.selectedManufacturer,
                              sortDirection |-> next.sortDirection,
                              selectedBodyTypes |-> next.selectedBodyTypes,
                              yearRange |-> next.yearRange]]}
    ELSE /\ listing' = next
         /\ UNCHANGED <<listRequests, nRequests>>

\* checkDatabaseStatus completes
DatabaseChecked ==
    /\ ~listing.dbChecked
    /\ FetchCarsEffect([listing EXCEPT !.dbChecked = TRUE])
    /\ UNCHANGED shownFor

\* handleManufacturerChange
ManufacturerChange ==
    /\ \E v \in {"", "Honda"} :
          /\ v # listing.selectedManufacturer
          /\ FetchCarsEffect([listing EXCEPT !.selectedManufacturer = v])
    /\ UNCHANGED shownFor

\* handleBodyTypeToggle('SUV')
BodyTypeToggle ==
    /\ LET prev == listing.selectedBodyTypes
           Other(t) == t # "SUV"
       IN  FetchCarsEffect([listing EXCEPT !.selectedBodyTypes =
               IF Includes(prev, "SUV") THEN ArrayFilter(prev, Other)
               ELSE Append(prev, "SUV")])
    /\ UNCHANGED shownFor

\* handleSortChange('year'), year being the sort field
SortChange ==
    /\ FetchCarsEffect([listing EXCEPT !.sortDirection =
           IF listing.sortDirection = "asc" THEN "desc" ELSE "asc"])
    /\ UNCHANGED shownFor

\* fetchCars after the await: the response is ok
CarsArrive ==
    \E r \in listRequests :
        /\ listRequests' = listRequests \ {r}
        /\ listing' = [listing EXCEPT
              !.cars = FilteredData(ResponseData(r.filters.selectedManufacturer),
                                    r.filters),
              !.loading = FALSE]
        /\ shownFor' = [id |-> r.id, ok |-> TRUE]
        /\ UNCHANGED nRequests

\* fetchCars after the await: the catch block
CarsFail ==
    \E r \in listRequests :
        /\ listRequests' = listRequests \ {r}
        /\ listing' = [listing EXCEPT !.cars = <<>>, !.loading = FALSE]
        /\ shownFor' = [id |-> r.id, ok |-> FALSE]
        /\ UNCHANGED nRequests

-----------------------------------------------------------------------------
(* CarDetail: the chat overlay *)

\* pending setTimeout callbacks of openChat and closeChat
MaxTimers == 3

\* the delays of the two timers, in units of 100 ms
OpenDelay == 6
CloseDelay == 5

DetailInit ==
    /\ chatState = "closed"
    /\ showAnalysis = FALSE
    /\ chatTimers = <<>>

\* setChatState(state) followed by setTimeout(() => setChatState(target), delay)
SetThenSchedule(state, target, delay) ==
    /\ Len(chatTimers) < MaxTimers
    /\ chatState' = state
    /\ chatTimers' = Append(chatTimers, [target |-> target, left |-> delay])

\* the chat button while the chat is closed: openChat
OpenChat ==
    /\ chatState = "closed"
    /\ SetThenSchedule("opening", "open", OpenDelay)
    /\ UNCHANGED showAnalysis

\* the chat button while the chat is not closed, and the X of the overlay:
\* closeChat
CloseChat ==
    /\ chatState # "closed"
    /\ SetThenSchedule("closing", "closed", CloseDelay)
    /\ UNCHANGED showAnalysis

\* toggleAnalysis
ToggleAnalysis ==
    /\ showAnalysis' = ~showAnalysis
    /\ IF chatState # "closed"
       THEN SetThenSchedule("closing", "closed", CloseDelay)
       ELSE UNCHANGED <<chatState, chatTimers>>

\* a timer that is due runs its callback
TimerFires ==
    \E i \in 1..Len(chatTimers) :
        /\ chatTimers[i].left = 0
        /\ chatState' = chatTimers[i].target
        /\ chatTimers' = SubSeq(chatTimers, 1, i - 1)
                         \o SubSeq(chatTimers, i + 1, Len(chatTimers))
        /\ UNCHANGED showAnalysis

\* 100 ms pass; a timer that is due runs first
Tick ==
    /\ chatTimers # <<>>
    /\ \A i \in 1..Len(chatTimers) : chatTimers[i].left > 0
    /\ chatTimers' = [i \in 1..Len(chatTimers) |->
                         [chatTimers[i] EXCEPT !.left = @ - 1]]
    /\ UNCHANGED <<chatState, showAnalysis>>

-----------------------------------------------------------------------------
(* Specifications *)

Init ==
    /\ ChatInit /\ VizInit /\ SentInit /\ TrendInit /\ AccessorInit /\ ShapingInit
    /\ CardsInit /\ SuggestionsInit /\ ReviewInit /\ ImageInit /\ ListingInit
    /\ DetailInit

newVars == <<cardVars, sugVars, reviewVars, imageVars, listVars, detailVars>>
oldVars == <<chatVars, vizVars, sentVars, trendVars, accVars, shapeVars>>

ChatOnly ==
    UNCHANGED <<vizVars, sentVars, trendVars, accVars, shapeVars, newVars>>
ClassifierOnly ==
    UNCHANGED <<chatVars, sentVars, trendVars, accVars, shapeVars, newVars>>
SentimentOnly ==
    UNCHANGED <<chatVars, vizVars, trendVars, accVars, shapeVars, newVars>>
TrendOnly ==
    UNCHANGED <<chatVars, vizVars, sentVars, accVars, shapeVars, newVars>>
AccessorsOnly ==
    UNCHANGED <<chatVars, vizVars, sentVars, trendVars, shapeVars, newVars>>
ShapingOnly ==
    UNCHANGED <<chatVars, vizVars, sentVars, trendVars, accVars, newVars>>
CardsOnly ==
    UNCHANGED <<oldVars, sugVars, reviewVars, imageVars, listVars, detailVars>>
SuggestionsOnly ==
    UNCHANGED <<oldVars, cardVars, reviewVars, imageVars, listVars, detailVars>>
ReviewOnly ==
    UNCHANGED <<oldVars, cardVars, sugVars, imageVars, listVars, detailVars>>
ImageOnly ==
    UNCHANGED <<oldVars, cardVars, sugVars, reviewVars, listVars, detailVars>>
ListingOnly ==
    UNCHANGED <<oldVars, cardVars, sugVars, reviewVars, imageVars, detailVars>>
DetailOnly ==
    UNCHANGED <<oldVars, cardVars, sugVars, reviewVars, imageVars, listVars>>

\* the chat orchestrator
Next ==
    \/ LoadCarData /\ ChatOnly
    \/ SetInput /\ ChatOnly
    \/ PressEnter /\ ChatOnly
    \/ ClickSend /\ ChatOnly
    \/ ClickSuggestion /\ ChatOnly
    \/ ClickRetry /\ ChatOnly
    \/ VoiceTranscript /\ ChatOnly
    \/ BackendSuccess /\ ChatOnly
    \/ BackendFailure /\ ChatOnly
    \/ SupplementaryTimer /\ ChatOnly
    \/ TypingTick /\ ChatOnly
    \/ TypingFinish /\ ChatOnly

Spec == Init /\ [][Next]_vars

\* the chat orchestrator under a fair event loop, with a user who types,
\* presses Enter, retries and speaks
LiveNext ==
    \/ LoadCarData /\ ChatOnly
    \/ SetInput /\ ChatOnly
    \/ PressEnter /\ ChatOnly
    \/ ClickRetry /\ ChatOnly
    \/ VoiceTranscript /\ ChatOnly
    \/ BackendSuccess /\ ChatOnly
    \/ BackendFailure /\ ChatOnly
    \/ SupplementaryTimer /\ ChatOnly
    \/ TypingTick /\ ChatOnly
    \/ TypingFinish /\ ChatOnly

\* the event loop runs every timer that is due, and every fetch settles
ChatFairness ==
    /\ WF_vars(SupplementaryTimer /\ ChatOnly)
    /\ WF_vars(TypingTick /\ ChatOnly)
    /\ WF_vars(TypingFinish /\ ChatOnly)
    /\ WF_vars((BackendSuccess \/ BackendFailure) /\ ChatOnly)

FairSpec == Init /\ [][LiveNext]_vars /\ ChatFairness

\* determineVisualizationType on the queries of the vocabulary
ClassifyNext ==
    \/ AddPhrase /\ ClassifierOnly
    \/ PassOtherValue /\ ClassifierOnly
    \/ Classify /\ ClassifierOnly

SpecClassify == Init /\ [][ClassifyNext]_vars

\* getReviewSentiment on the rows within the bounds
SentimentNext ==
    \/ StoreReviewRow /\ SentimentOnly
    \/ GetReviewSentiment /\ SentimentOnly
    \/ GetReviewSentimentFailed /\ SentimentOnly

SpecSentiment == Init /\ [][SentimentNext]_vars

\* trend shaping on the timelines within the bounds
TrendShapingNext ==
    \/ StoreTimelineEvent /\ TrendOnly
    \/ ShapeTrend /\ TrendOnly
    \/ ShapeTrendNoData /\ TrendOnly

SpecTrend == Init /\ [][TrendShapingNext]_vars

\* the four accessors on the query outcomes within the bounds
AccessorsNext ==
    \/ BeginAccessor /\ AccessorsOnly
    \/ QueryReturnsRow /\ AccessorsOnly
    \/ QueryFails /\ AccessorsOnly
    \/ CallAccessor /\ AccessorsOnly

SpecAccessors == Init /\ [][AccessorsNext]_vars

\* comparison, sentiment and relationship shaping on the stores within the bounds
ShapingNext ==
    \/ BeginShaping /\ ShapingOnly
    \/ StoreRelationship /\ ShapingOnly
    \/ RelationshipQueryFails /\ ShapingOnly
    \/ StoreFeature /\ ShapingOnly
    \/ FeatureQueryFails /\ ShapingOnly
    \/ StoreAggregate /\ ShapingOnly
    \/ AggregateQueryFails /\ ShapingOnly
    \/ GenerateComparison /\ ShapingOnly
    \/ GenerateSentiment /\ ShapingOnly
    \/ GenerateRelationship /\ ShapingOnly

SpecShaping == Init /\ [][ShapingNext]_vars

\* the cards of a reply on the response bodies within the bounds
CardsNext ==
    \/ ReceiveBody /\ CardsOnly
    \/ BuildComponents /\ CardsOnly

SpecCards == Init /\ [][CardsNext]_vars

\* generateSuggestions on the contexts within the bounds
SuggestionsNext ==
    \/ SetSuggestionContext /\ SuggestionsOnly
    \/ CallGenerateSuggestions /\ SuggestionsOnly

SpecSuggestions == Init /\ [][SuggestionsNext]_vars

\* ReviewAnalysis with a backend that answers any of the response texts
ReviewNext ==
    \/ MountReviewAnalysis /\ ReviewOnly
    \/ CarDataArrives /\ ReviewOnly
    \/ RetryCarData /\ ReviewOnly
    \/ ClickGenerateReview /\ ReviewOnly
    \/ GenerateResponds /\ ReviewOnly
    \/ GenerateRejects /\ ReviewOnly
    \/ GenerateCompletes /\ ReviewOnly

SpecReview == Init /\ [][ReviewNext]_vars

\* getCarImageUrl on the cars and the probe outcomes
ImageNext ==
    \/ CallGetCarImageUrl /\ ImageOnly
    \/ ProbeSettles /\ ImageOnly

SpecImage == Init /\ [][ImageNext]_vars

\* CarListing with a user who changes filters while requests are pending
ListingNext ==
    \/ DatabaseChecked /\ ListingOnly
    \/ ManufacturerChange /\ ListingOnly
    \/ BodyTypeToggle /\ ListingOnly
    \/ SortChange /\ ListingOnly
    \/ CarsArrive /\ ListingOnly
    \/ CarsFail /\ ListingOnly

SpecListing == Init /\ [][ListingNext]_vars

\* the chat overlay of CarDetail with its two timers
DetailNext ==
    \/ OpenChat /\ DetailOnly
    \/ CloseChat /\ DetailOnly
    \/ ToggleAnalysis /\ DetailOnly
    \/ TimerFires /\ DetailOnly
    \/ Tick /\ DetailOnly

SpecDetail == Init /\ [][DetailNext]_vars

-----------------------------------------------------------------------------
(* Claims about the chat orchestrator *)

\* C1: retryCount equals the number of failed backend calls that completed
\* since the most recent successful completion.
C1_RetryCountCountsFailures == errorState.retryCount = failsSinceSuccess

\* C2: the k-th consecutive failure appends the error text of tier min(k, 3)
\* (three consecutive failures give three distinct texts, a fourth repeats the
\* third), with the retry button exactly for k < 3.
C2_ConsecutiveFailuresEscalate ==
    [][failsSinceSuccess' = failsSinceSuccess + 1 =>
        LET m == messages'[Len(messages')]
        IN  /\ m.error
            /\ m.text = ErrorText(failsSinceSuccess')
            /\ m.showRetry = (failsSinceSuccess' < 3)]_vars

C4_AppendOnly ==
    [][/\ Len(messages') >= Len(messages)
       /\ \A i \in 1..Len(messages) :
            \/ messages'[i] = messages[i]
            \/ /\ messages[i].sender = "ai"
               /\ ~messages[i].error
               /\ messages[i].text = ""
               /\ messages'[i] = [messages[i] EXCEPT !.text = fullResponseText]]_vars

\* C16: a submit with a non-blank text appends one user message with that
\* text at the end, sets loading and issues one backend call, whose
\* conversation_history is the texts of the user messages appended before,
\* in order - whatever triggered the submit.
C16_SubmitCallsBackendWithPriorUserTexts ==
    [][nSubmits' = nSubmits + 1 =>
        \E r \in inflight' \ inflight :
            /\ inflight' = inflight \cup {r}
            /\ messages' = Append(messages, Msg(r.message, "user"))
            /\ loading'
            /\ r.clo.history = UserTexts(messages)]_vars

\* C17: a submit with an empty or whitespace-only text leaves the message
\* list, the pending flag, retryCount and the reveal state as they are and
\* issues no backend call.
C17_BlankSubmitIsNoOp ==
    [][blankSubmits' = blankSubmits + 1 =>
        /\ messages' = messages
        /\ loading' = loading
        /\ errorState' = errorState
        /\ typingEffect' = typingEffect
        /\ currentTypingText' = currentTypingText
        /\ fullResponseText' = fullResponseText
        /\ inflight' = inflight
        /\ timers' = timers]_vars

\* C17 witness: a blank text was submitted while a call was pending, the
\* field still holding the blanks
C17_Witness ==
    /\ blankSubmits >= 1
    /\ input # ""
    /\ Trim(input) = ""
    /\ loading
    /\ inflight # {}

\* C18: retry submits the text of the user's most recent submission.
C18_RetryResubmitsLastTyped ==
    [][(ClickRetry /\ nSubmits' = nSubmits + 1) =>
        \E r \in inflight' \ inflight : r.message = lastSubmitted]_vars

\* the senders of the messages, in order
Senders(msgs) == [i \in 1..Len(msgs) |-> msgs[i].sender]

IsPrefix(a, b) == Len(a) <= Len(b) /\ SubSeq(b, 1, Len(a)) = a

\* the position of the k-th user message
UserPosition(msgs, k) ==
    CHOOSE i \in 1..Len(msgs) :
        /\ msgs[i].sender = "user"
        /\ Cardinality({j \in 1..i : msgs[j].sender = "user"}) = k

\* C19: the list only grows at its end; the k-th submit appends the k-th user
\* message; every completion, also of a call that later submits have
\* overtaken, appends its AI or error message, which so comes after the user
\* message of its submit.
C19_SubmissionOrder ==
    [][/\ IsPrefix(Senders(messages), Senders(messages'))
       /\ nSubmits' = nSubmits + 1 =>
             /\ Len(messages') = Len(messages) + 1
             /\ UserPosition(messages', nSubmits') = Len(messages')
             /\ \E r \in inflight' \ inflight :
                   /\ r.id = nSubmits'
                   /\ messages'[Len(messages')].text = r.message
       /\ \A r \in inflight \ inflight' :
             /\ Len(messages') = Len(messages) + 1
             /\ messages'[Len(messages')].sender = "ai"
             /\ UserPosition(messages, r.id) < Len(messages')]_vars

\* C19 witness: two user messages in a row, and the results of both calls
\* appended after them
C19_Witness ==
    /\ inflight = {}
    /\ \E i \in 1..(Len(messages) - 3) :
          /\ messages[i].sender = "user"
          /\ messages[i + 1].sender = "user"
          /\ messages[i + 2].sender = "ai"
          /\ messages[i + 2].error
          /\ messages[i + 3].sender = "ai"

\* a retry button is on screen
RetryOffered ==
    \E idx \in 1..Len(messages) :
        messages[idx].error /\ messages[idx].showRetry /\ BodyShown(idx)

\* C20: while retryCount >= 3 no message offers the retry button.
C20_NoRetryAtCap == errorState.retryCount >= 3 => ~RetryOffered

\* C27: every successful reply is eventually finalized: once the reveal of a
\* reply has started (typingEffect set), the reveal ends, the AI message then
\* holding the response string - also for an empty response string, for
\* messages appended during the reveal and for a second reply arriving
\* before the reveal has finished.
C27_RevealEnds == typingEffect ~> ~typingEffect

\* C28: loading is true exactly while at least one backend call is
\* outstanding.
C28_LoadingIffOutstanding == loading <=> inflight # {}

-----------------------------------------------------------------------------
(* Claims about determineVisualizationType *)

Classified == vizType # "unset" /\ query.type = "string" /\ query.text # ""

\* C5: the result is the matching group that comes first in
\* comparison > trend > sentiment > relationship; a query matching a
\* comparison and a relationship pattern gives comparison.
C5_PriorityOrder ==
    Classified =>
        LET q == ToLowerCase(query.text)
            c == GroupMatches("comparison", q)
            t == GroupMatches("trend", q)
            s == GroupMatches("sentiment", q)
            r == GroupMatches("relationship", q)
        IN  /\ c => vizType = "comparison"
            /\ (~c /\ t) => vizType = "trend"
            /\ (~c /\ ~t /\ s) => vizType = "sentiment"
            /\ (~c /\ ~t /\ ~s /\ r) => vizType = "relationship"

\* C5 witness: a classified query that matches a comparison pattern, a trend
\* pattern and a relationship pattern
C5_Witness ==
    /\ Classified
    /\ GroupMatches("comparison", ToLowerCase(query.text))
    /\ GroupMatches("trend", ToLowerCase(query.text))
    /\ GroupMatches("relationship", ToLowerCase(query.text))
    /\ vizType = "comparison"

\* some group of patterns matches the lower-cased query
AnyGroupMatches(q) ==
    \E type \in {"comparison", "trend", "sentiment", "relationship"} :
        GroupMatches(type, q)

HasFeatureTerm(q) == \E term \in FeatureTerms : Contains(q, term)

\* C22: the result is null exactly when the input is empty or no string, or no
\* group matches and no feature term is in the query; when no group matches
\* and a feature term is there, it is comparison if the query contains
\* 'compare' or 'other', else trend if it contains 'history' or 'improved',
\* else sentiment.
C22_NullAndFeatureInquiry ==
    vizType # "unset" =>
        LET q == ToLowerCase(query.text)
            invalid == query.type # "string" \/ query.text = ""
        IN  /\ vizType = "null" <=>
                  (invalid \/ (~AnyGroupMatches(q) /\ ~HasFeatureTerm(q)))
            /\ (~invalid /\ ~AnyGroupMatches(q) /\ HasFeatureTerm(q)) =>
                  vizType =
                     IF Contains(q, "compare") \/ Contains(q, "other")
                     THEN "comparison"
                     ELSE IF Contains(q, "history") \/ Contains(q, "improved")
                          THEN "trend" ELSE "sentiment"

\* C22 witness: a feature inquiry that no group matches, holding a comparison
\* cue and a trend cue, classified as comparison
C22_Witness ==
    /\ Classified
    /\ ~AnyGroupMatches(ToLowerCase(query.text))
    /\ HasFeatureTerm(ToLowerCase(query.text))
    /\ Contains(ToLowerCase(query.text), "compare")
    /\ Contains(ToLowerCase(query.text), "improved")
    /\ vizType = "comparison"

-----------------------------------------------------------------------------
(* Claims about getReviewSentiment *)

IsNumber(x, n) == x = Fin(n, 1)

\* C6: the three percentages of an aspect sum to at most 100.
C6_PercentagesSumAtMost100 ==
    sentimentDone =>
        \A i \in 1..Len(sentimentOut) :
            LET o == sentimentOut[i]
            IN  /\ o.positive.kind = "finite"
                /\ o.negative.kind = "finite"
                /\ o.neutral.kind = "finite"
                /\ o.positive.num + o.negative.num + o.neutral.num <= 100

AllCountsZero(item) ==
    item.positive_count = 0 /\ item.negative_count = 0 /\ item.neutral_count = 0

\* C7: an aspect whose three counts are 0 gets positive = negative = neutral = 0,
\* the number, not NaN.
C7_ZeroCountsGiveZero ==
    sentimentDone =>
        \A i \in 1..Len(sentimentOut) :
            AllCountsZero(reviewRows[i]) =>
                /\ IsNumber(sentimentOut[i].positive, 0)
                /\ IsNumber(sentimentOut[i].negative, 0)
                /\ IsNumber(sentimentOut[i].neutral, 0)

\* C7 witness: getReviewSentiment has formatted a row of three zero counts
C7_Witness ==
    /\ sentimentDone
    /\ Len(sentimentOut) >= 1
    /\ AllCountsZero(reviewRows[1])

-----------------------------------------------------------------------------
(* Claims about trend shaping *)

\* the positions in the fetched timeline of the events of a year and a type
EventsOf(year, type) ==
    {i \in 1..Len(timeline) :
        timeline[i].year = year /\ timeline[i].event_type = type}

ScoresOf(year, type) ==
    {timeline[i].significance_score : i \in EventsOf(year, type)}

FetchedYears == {timeline[i].year : i \in 1..Len(timeline)}

SeriesTypes == {"safety", "performance", "technology"}

SeriesOf(row, type) ==
    CASE type = "safety" -> row.Safety
      [] type = "performance" -> row.Performance
      [] type = "technology" -> row.Technology

\* the rows labelled with a year
RowsOf(year) == {r \in 1..Len(trendOut) : trendOut[r].label = NatToString(year)}

SetMax(S) == CHOOSE x \in S : \A y \in S : y <= x

\* C8: when a year has several events of one type (scores not 0), the row
\* holds the largest of their scores, whatever the order they were fetched in.
C8_MostSignificantScore ==
    trendDone =>
        \A year \in FetchedYears : \A type \in SeriesTypes : \A r \in RowsOf(year) :
            (Cardinality(EventsOf(year, type)) >= 2 /\ 0 \notin ScoresOf(year, type))
                => SeriesOf(trendOut[r], type) = <<SetMax(ScoresOf(year, type))>>

\* C9: one row per distinct year, labelled with it; a series is null exactly
\* when the year has no event of that type and is otherwise the score of such
\* an event.
C9_RowPerYear ==
    trendDone =>
        /\ Len(trendOut) = Cardinality(FetchedYears)
        /\ \A year \in FetchedYears : Cardinality(RowsOf(year)) = 1
        /\ \A year \in FetchedYears : \A type \in SeriesTypes : \A r \in RowsOf(year) :
              /\ (SeriesOf(trendOut[r], type) = <<>>) <=> (EventsOf(year, type) = {})
              /\ EventsOf(year, type) # {} =>
                    \E sc \in ScoresOf(year, type) : SeriesOf(trendOut[r], type) = <<sc>>

\* the year a row is labelled with
YearOfRow(r) == CHOOSE year \in FetchedYears : trendOut[r].label = NatToString(year)

\* C10: the rows are in strictly increasing numeric year order.
C10_RowsInYearOrder ==
    trendDone =>
        \A r1, r2 \in 1..Len(trendOut) :
            r1 < r2 => YearOfRow(r1) < YearOfRow(r2)


-----------------------------------------------------------------------------
(* Claims about sentiment shaping *)

SentimentShaped == shapeType = "sentiment" /\ shapeOut.kind = "return"

\* positive_count + negative_count of the fetched aggregate of an aspect
MentionVolume(aspect) ==
    LET i == CHOOSE j \in 1..Len(sentQuery.rows) : sentQuery.rows[j].aspect = aspect
    IN  sentQuery.rows[i].positive_count + sentQuery.rows[i].negative_count

\* C11: sentiment shaping returns min(7, n) of the n fetched aggregates, the
\* ones with the largest positive_count + negative_count, in non-increasing
\* order of it.
C11_TopAspectsByVolume ==
    (SentimentShaped /\ sentQuery.kind = "data") =>
        LET out == shapeOut.value.aspectData
            chosen == {out[i].aspect : i \in 1..Len(out)}
            fetched == {sentQuery.rows[j].aspect : j \in 1..Len(sentQuery.rows)}
        IN  /\ Len(out) = Min(7, Len(sentQuery.rows))
            /\ chosen \subseteq fetched
            /\ \A i \in 1..(Len(out) - 1) :
                  MentionVolume(out[i].aspect) >= MentionVolume(out[i + 1].aspect)
            /\ \A a \in chosen : \A b \in fetched \ chosen :
                  MentionVolume(a) >= MentionVolume(b)


-----------------------------------------------------------------------------
(* Claims about relationship and comparison shaping *)

\* the relationship list the store gave for the primary car: its rows, or
\* nothing when the query failed
FetchedRelationships == IF relQuery.kind = "data" THEN relQuery.rows ELSE <<>>

\* C12: relationship shaping returns 1 + k nodes, the first being the primary
\* car, and k links from the primary car, the i-th one to the i-th related
\* node with the type and strength of the i-th relationship (k = 0 when the
\* fetch failed).
C12_NodesAndLinks ==
    (shapeType = "relationship" /\ shapeOut.kind # "pending") =>
        /\ shapeOut.kind = "return"
        /\ LET rels == FetchedRelationships
               nodes == shapeOut.value.nodes
               links == shapeOut.value.links
           IN  /\ Len(nodes) = 1 + Len(rels)
               /\ nodes[1].id = PrimaryCar.id
               /\ nodes[1].type = "primary"
               /\ Len(links) = Len(rels)
               /\ \A i \in 1..Len(rels) :
                     /\ nodes[i + 1].id = rels[i].target_cars[1].id
                     /\ links[i].source = PrimaryCar.id
                     /\ links[i].target = nodes[i + 1].id
                     /\ links[i].type = rels[i].relationship_type
                     /\ links[i].strength = rels[i].relationship_strength

\* C12 witness: a relationship payload for a car with two relationships of
\* different types
C12_Witness ==
    /\ shapeType = "relationship"
    /\ shapeOut.kind = "return"
    /\ Len(FetchedRelationships) >= 2
    /\ FetchedRelationships[1].relationship_type
          # FetchedRelationships[2].relationship_type

\* the fetched features hold an 'overall' entry for the car and the category
HasOverall(id, cat) ==
    /\ featQuery.kind = "data"
    /\ \E i \in 1..Len(featQuery.rows) :
          /\ featQuery.rows[i].car_id = id
          /\ featQuery.rows[i].category = cat
          /\ featQuery.rows[i].feature_name = "overall"

\* C13: comparison shaping returns a payload whatever data is missing, the
\* failed feature fetch included; the value of a pair without an 'overall'
\* score is a placeholder p with 3 <= p < 5 (in tenths: 30 <= p < 50).
C13_ComparisonNeverFails ==
    (shapeType = "comparison" /\ shapeOut.kind # "pending") =>
        /\ shapeOut.kind = "return"
        /\ LET out == shapeOut.value
           IN  \A e \in 1..Len(out.values) : \A c \in 1..Len(out.values[e]) :
                  ~HasOverall(out.entities[e].id, out.categories[c]) =>
                      /\ out.values[e][c].kind = "placeholder"
                      /\ 30 <= out.values[e][c].value
                      /\ out.values[e][c].value < 50

\* the positions of the competitor relationships in fetch order
CompetitorPositions ==
    {i \in 1..Len(FetchedRelationships) :
        FetchedRelationships[i].relationship_type = "competitor"}

\* the n-th competitor relationship
NthCompetitor(n) ==
    FetchedRelationships[
        CHOOSE i \in CompetitorPositions :
            Cardinality({j \in CompetitorPositions : j <= i}) = n]

\* C14: a returned comparison payload has the primary car and then the first
\* min(2, c) competitor relationships in fetch order as entities, and one row
\* of values per entity, in that order, of one entry per category in the
\* order Performance, Comfort, Safety, Technology, Value.
C14_EntitiesAndValues ==
    (shapeType = "comparison" /\ shapeOut.kind = "return") =>
        LET out == shapeOut.value
            n == Min(2, Cardinality(CompetitorPositions))
        IN  /\ out.categories = <<"Performance", "Comfort", "Safety", "Technology", "Value">>
            /\ Len(out.entities) = 1 + n
            /\ out.entities[1].id = PrimaryCar.id
            /\ \A k \in 1..n :
                  /\ out.entities[k + 1].id = NthCompetitor(k).target_cars[1].id
                  /\ out.entities[k + 1].name = CarName(NthCompetitor(k).target_cars[1])
            /\ Len(out.values) = Len(out.entities)
            /\ \A e \in 1..Len(out.values) :
                  /\ Len(out.values[e]) = 5
                  /\ \A c \in 1..5 :
                        out.values[e][c].kind = "score" =>
                            /\ HasOverall(out.entities[e].id, out.categories[c])
                            /\ \E i \in 1..Len(featQuery.rows) :
                                  /\ featQuery.rows[i].car_id = out.entities[e].id
                                  /\ featQuery.rows[i].category = out.categories[c]
                                  /\ featQuery.rows[i].feature_name = "overall"
                                  /\ featQuery.rows[i].feature_rating = out.values[e][c].value

\* C14 witness: a comparison payload for a car with three competitors, one of
\* the compared cars having an 'overall' score
C14_Witness ==
    /\ shapeType = "comparison"
    /\ shapeOut.kind = "return"
    /\ Cardinality(CompetitorPositions) >= 3
    /\ Len(shapeOut.value.entities) = 3
    /\ \E c \in 1..5 : shapeOut.value.values[2][c].kind = "score"

-----------------------------------------------------------------------------
(* Claims about the accessors *)

\* the store query failed, or one of its rows has no target car to format
QueryUnusable ==
    \/ accQuery.kind # "data"
    \/ /\ accFn = "getCarRelationships"
       /\ \E i \in 1..Len(accQuery.rows) : accQuery.rows[i].target_cars = <<>>

\* C15: every accessor returns, never throws; it returns the empty list (the
\* empty mapping for getCarFeatures) when the query reports an error, throws,
\* or holds a row that cannot be formatted, and the whole result otherwise.
C15_AccessorsFailClosed ==
    accResult.kind # "pending" =>
        /\ accResult.kind = "return"
        /\ QueryUnusable => DOMAIN accResult.value = {}
        /\ ~QueryUnusable =>
              IF accFn = "getCarFeatures"
              THEN DOMAIN accResult.value = {"car1", "car2"}
              ELSE Len(accResult.value) = Len(accQuery.rows)

\* C15 witness: getCarRelationships has returned for a query of two rows, the
\* first with its target car, the second without
C15_Witness ==
    /\ accFn = "getCarRelationships"
    /\ accResult.kind = "return"
    /\ accQuery.kind = "data"
    /\ Len(accQuery.rows) = 2
    /\ accQuery.rows[1].target_cars # <<>>
    /\ accQuery.rows[2].target_cars = <<>>

-----------------------------------------------------------------------------
(* Claims about the cards and the suggestions of a reply *)

CardTypes ==
    {"specification", "category_scores", "pros_cons", "sentiment", "rating"}

\* how many cards of a type the reply carries
CardCount(type) ==
    Cardinality({i \in 1..Len(cardComponents) : cardComponents[i] = type})

\* C21: the AI message of a successful call carries at most one card of each
\* type, and a card is there exactly when its field is in the response:
\* category scores non-empty; one of the pros and cons lists non-empty;
\* sentiment present; an average rating present, whatever the number; entity
\* data present and at most 2 messages in the session at the submit.
C21_CardsIffFieldsPresent ==
    cardComponents # <<"unset">> =>
        LET a == cardData.analysis
        IN  /\ \A t \in CardTypes : CardCount(t) <= 1
            /\ CardCount("category_scores") = 1 <=> a.category_scores > 0
            /\ CardCount("pros_cons") = 1 <=>
                  (a.common_pros > 0 \/ a.common_cons > 0)
            /\ CardCount("sentiment") = 1 <=> a.sentiment >= 0
            /\ CardCount("rating") = 1 <=> a.average_rating >= 0
            /\ CardCount("specification") = 1 <=>
                  (cardData.car_data # <<>> /\ cardLength <= 2)

\* whether generateSuggestions has been called with the context
Suggested == sugOut # <<>>

\* '{year} {manufacturer} {model}' of the entities, written out
DisplayName(car) ==
    IF car.model = "Civic" THEN "2022 Honda Civic" ELSE "1999 Kia Rio"

\* the first question of the set the policy table gives a deeper turn
FirstFollowUp(category, name) ==
    CASE category = "fuel_economy" ->
            "How does the " \o name \o "'s fuel economy compare to competitors?"
      [] category = "performance" -> "What's the horsepower of the " \o name \o "?"
      [] category = "reliability" -> "What are common issues with the " \o name \o "?"
      [] category = "safety" -> "What safety ratings does the " \o name \o " have?"
      [] OTHER -> "How does the " \o name \o " compare to similar vehicles?"

\* C23: no entity gives the 5 generic questions whatever the category and the
\* turn count; an entity and turnCount <= 2 give the 5 basic templates whatever
\* the category; an entity and turnCount > 2 give the 4 questions of the
\* category when it is fuel_economy, performance, reliability or safety, and
\* the 4 generic follow-ups otherwise.  The result has 4 or 5 entries.
C23_PolicyTable ==
    Suggested =>
        LET car == sugContext.carData
            n == sugContext.conversationLength
        IN  /\ Len(sugOut) \in {4, 5}
            /\ car = <<>> =>
                  /\ Len(sugOut) = 5
                  /\ sugOut[1] = "What cars do you recommend?"
                  /\ sugOut[5] = "What are the safest family vehicles?"
            /\ (car # <<>> /\ n <= 2) =>
                  /\ Len(sugOut) = 5
                  /\ sugOut[1] = "What's the fuel economy like for the "
                                    \o DisplayName(car[1]) \o "?"
                  /\ sugOut[5] = "Is the " \o DisplayName(car[1]) \o " reliable?"
            /\ (car # <<>> /\ n > 2) =>
                  /\ Len(sugOut) = 4
                  /\ sugOut[1] = FirstFollowUp(sugContext.intent, DisplayName(car[1]))

\* C23 witness: the reliability questions for an entity at the third turn,
\* the basic templates being passed over
C23_Witness ==
    /\ Suggested
    /\ sugContext.carData = <<TheCar>>
    /\ sugContext.intent = "reliability"
    /\ sugContext.conversationLength = 3
    /\ Len(sugOut) = 4

\* C24: for an entity and turnCount <= 2 the result is exactly 5 suggestions,
\* each containing the display name of the entity.
C24_BasicTemplatesNameTheEntity ==
    (Suggested /\ sugContext.carData # <<>> /\ sugContext.conversationLength <= 2) =>
        /\ Len(sugOut) = 5
        /\ \A i \in 1..Len(sugOut) :
              Contains(sugOut[i], DisplayName(sugContext.carData[1]))

\* C24 witness: the suggestions for the 2022 Honda Civic at turn 1
C24_Witness ==
    /\ Suggested
    /\ sugContext.carData = <<TheCar>>
    /\ sugContext.conversationLength = 1
    /\ Contains(sugOut[3], "2022 Honda Civic")

-----------------------------------------------------------------------------
(* Claims about ReviewAnalysis *)

\* the body is no valid JSON, or parses to something that is no review
Malformed(responseText) ==
    LET parsed == JsonParse(responseText)
    IN  \/ parsed.kind = "throw"
        \/ parsed.value.kind # "object"
        \/ parsed.value.review_text = <<>>

\* C25: when the backend answers OK with a body that is no valid JSON or not
\* of the expected shape, generation ends with reviewGenerated = true, the
\* best-effort review (the first 500 characters of the body, then '...'),
\* no error and generating = false.
C25_MalformedBodySubstituted ==
    (reviewCall.stage = "done" /\ reviewCall.ok
        /\ Malformed(reviewCall.responseText)) =>
        /\ review.reviewGenerated
        /\ review.generatedReview.kind = "object"
        /\ review.generatedReview.review_text =
              <<Substring0(reviewCall.responseText, 500) \o "...">>
        /\ review.error = ""
        /\ ~review.generating

-----------------------------------------------------------------------------
(* Claims about CarImageService *)

\* C26: getCarImageUrl resolves to a string and never rejects, for every car
\* argument (undefined; a car with missing or null fields) and every outcome
\* of the availability probe.
C26_AlwaysResolves ==
    imageResult.kind # "pending" => imageResult.kind = "return"

-----------------------------------------------------------------------------
(* Claims about CarListing *)

\* C29: when no car-list request is outstanding, the displayed list is the
\* result of the request issued for the latest filter values: sorted and
\* filtered by them if it succeeded.
C29_LatestResultShown ==
    (listRequests = {} /\ nRequests > 0) =>
        /\ shownFor.id = nRequests
        /\ shownFor.ok =>
              listing.cars =
                  FilteredData(ResponseData(listing.selectedManufacturer), Filters)

-----------------------------------------------------------------------------
(* Claims about CarDetail *)

\* C30: once the chat overlay is 'closed' it stays 'closed' until openChat is
\* invoked again, which sets 'opening': a pending open timer never reopens a
\* closed chat.
C30_ClosedUntilOpened ==
    [][chatState = "closed" => chatState' \in {"closed", "opening"}]_vars

=============================================================================
